---- MODULE Spec2Model ----
(***************************************************************************)
(* The sticker pack lifecycle manager of meme-maker: StickerPackManager    *)
(* (sticker_pack/manager.py) over Pack (pack.py) and PackUpdater           *)
(* (update.py).  The file system under the storage root, the three         *)
(* in-memory registries, the config file and the events handed to the      *)
(* registered listeners are the state; reload, install_pack, update_pack   *)
(* and delete_pack are the operations.  Two smaller machines stand beside  *)
(* it: the user sessions of MemeMakerPlugin (main.py) with their expiry    *)
(* sweep, and the catalog cache of HubClient (hub.py).  The functions of   *)
(* Pack and PackUpdater are also called on their own, on inputs drawn from *)
(* bounded sets (VersionSpec, PackSpec), and reload() is called in a row   *)
(* on any registry content (ReloadSpec).                                   *)
(***************************************************************************)
EXTENDS Integers, Sequences, FiniteSets, TLC

\* ------------------------------------------------------------------ bounds

\* Sticker file stems are numbered 1..NumStems (StemName gives their
\* characters); a stickers/ directory drawn as an input holds at most MaxFiles
\* entries.
NumStems == 5
MaxFiles == 4

\* The clock (datetime.now()) runs from 0 to MaxTime, in ticks.
MaxTime == 4

\* session_timeout (five minutes in the plugin) and a HubClient's cache_ttl,
\* in ticks of the clock.
SessionTimeout == 2
CacheTtl == 2

\* A version string has at most MaxParts "."-separated components.
MaxParts == 3
MaxFlowTime == 3
MaxChunks == 2

\* ------------------------------------------------------------- value sets

\* Pack names the caller uses; DotName is a directory of packs/ whose name
\* starts with a dot.
Names == {"a", "b"}
DotName == ".cache"
DirNames == Names \cup {DotName}

None == "None"

\* Version strings, as their "."-separated components.
V1 == <<"1">>
V10 == <<"1", "0">>
V2 == <<"2">>

\* An entry of a stickers/ directory: a regular file <stem>.<ext>, or a
\* subdirectory of that name.
Entry(stem, ext, regular) == [stem |-> stem, ext |-> ext, regular |-> regular]
File(stem, ext) == Entry(stem, ext, TRUE)
Stems == 1..NumStems

\* The characters of the stems, numbered in the order in which their file
\* names sort ("-" comes before ".", and "." before the letters): a-b, a, b,
\* c, readme, and then readmer, readmerr, ...
StemName(stem) ==
    CASE stem = 1 -> <<"a", "-", "b">>
      [] stem = 2 -> <<"a">>
      [] stem = 3 -> <<"b">>
      [] stem = 4 -> <<"c">>
      [] OTHER -> <<"r", "e", "a", "d", "m", "e">> \o [i \in 1..(stem - 5) |-> "r"]

\* Pack.SUPPORTED_FORMATS, with the leading dot dropped.
SUPPORTED_FORMATS == {"png", "jpg", "jpeg", "gif", "webp"}

\* str.lower() on the extensions the model uses.
Lower(ext) == CASE ext = "PNG" -> "png" [] ext = "JPG" -> "jpg" [] OTHER -> ext

\* The content of metadata.json: missing, not loadable, or the fields that
\* PackManifest.from_dict reads.
MissingMeta ==
    [kind |-> "missing", name |-> "", display_name |-> "", version |-> V1, url |-> None]
CorruptMeta ==
    [kind |-> "corrupt", name |-> "", display_name |-> "", version |-> V1, url |-> None]
Meta(name, display_name, version, url) ==
    [kind |-> "json", name |-> name, display_name |-> display_name,
     version |-> version, url |-> url]

\* A directory: whether it exists, its metadata.json, whether it has a
\* stickers/ subdirectory and the files in it.
NoDir == [exists |-> FALSE, meta |-> MissingMeta, sdir |-> FALSE, files |-> {}]
Dir(meta, sdir, files) == [exists |-> TRUE, meta |-> meta, sdir |-> sdir, files |-> files]

\* ------------------------------------------------------------------- Pack

\* Pack.load_manifest raises PackError: no metadata.json, invalid JSON (or
\* unreadable), or an empty name or display_name.
load_manifest_raises(dir) ==
    \/ ~dir.exists
    \/ dir.meta.kind # "json"
    \/ dir.meta.name = ""
    \/ dir.meta.display_name = ""

\* What Pack.load_manifest returns when it does not raise.
load_manifest(dir) ==
    [name |-> dir.meta.name, display_name |-> dir.meta.display_name,
     version |-> dir.meta.version, url |-> dir.meta.url, stickers |-> <<>>]

\* The order of sorted(iterdir()): the paths compare as strings, so the
\* entries by <stem>.<ext> in code point order: by stem (in the order of
\* their numbers), then by extension.
ExtRank(ext) ==
    CASE ext = "JPG" -> 0 [] ext = "PNG" -> 1 [] ext = "gif" -> 2
      [] ext = "jpeg" -> 3 [] ext = "jpg" -> 4 [] ext = "md" -> 5
      [] ext = "png" -> 6 [] ext = "txt" -> 7 [] OTHER -> 8
FileLess(f, g) ==
    \/ f.stem < g.stem
    \/ f.stem = g.stem /\ ExtRank(f.ext) < ExtRank(g.ext)

RECURSIVE SortedFiles(_)
SortedFiles(S) ==
    IF S = {} THEN <<>>
    ELSE LET m == CHOOSE f \in S : \A g \in S \ {f} : FileLess(f, g)
         IN <<m>> \o SortedFiles(S \ {m})

StickerInfo(f) ==
    [name |-> StemName(f.stem), path |-> <<"stickers", StemName(f.stem), f.ext>>]

\* A slip of discover_stickers: the extension is matched as written.
discover_case_sensitive(dir) ==
    IF ~dir.sdir THEN <<>>
    ELSE LET all == SortedFiles(dir.files)
             keep == SelectSeq(all, LAMBDA f : f.regular /\ f.ext \in SUPPORTED_FORMATS)
         IN [i \in 1..Len(keep) |-> StickerInfo(keep[i])]

\* Pack.discover_stickers: nothing without a stickers/ directory, else one
\* StickerInfo per regular file with a supported extension, in the order of
\* the sorted paths.
discover_stickers(dir) ==
    IF ~dir.sdir THEN <<>>
    ELSE LET all == SortedFiles(dir.files)
             keep == SelectSeq(all, LAMBDA f : f.regular /\ Lower(f.ext) \in SUPPORTED_FORMATS)
         IN [i \in 1..Len(keep) |-> StickerInfo(keep[i])]

\* A slip of validate: a pack whose manifest loads is valid.
validate_manifest_only(dir) ==
    dir.exists /\ dir.meta.kind # "missing" /\ ~load_manifest_raises(dir)

\* Pack.validate: metadata.json exists, load_manifest does not raise,
\* stickers/ exists and discover_stickers finds a sticker; every exception
\* is turned into False.
validate(dir) ==
    IF ~(dir.exists /\ dir.meta.kind # "missing") THEN FALSE
    ELSE IF load_manifest_raises(dir) THEN FALSE
    ELSE IF ~dir.sdir THEN FALSE
    ELSE Len(discover_stickers(dir)) > 0

\* Pack.save_manifest: metadata.json rewritten from manifest.to_dict().
save_manifest(dir, manifest) ==
    [dir EXCEPT !.meta = Meta(manifest.name, manifest.display_name,
                              manifest.version, manifest.url)]

\* ------------------------------------------------------------ PackUpdater

IsInt(c) == c \in {"0", "1", "2", "9"}
IntOf(c) == CASE c = "0" -> 0 [] c = "1" -> 1 [] c = "2" -> 2 [] c = "9" -> 9 [] OTHER -> 0

\* parse_version: the tuple of the components' integers, (0,) when any
\* component is not an integer.
parse_version(v) ==
    IF \A i \in 1..Len(v) : IsInt(v[i])
    THEN [i \in 1..Len(v) |-> IntOf(v[i])]
    ELSE <<0>>

\* Python's tuple order: lexicographic, a proper prefix is smaller.
TupleLess(s, t) ==
    \/ \E i \in 1..Len(s) :
          /\ i <= Len(t)
          /\ s[i] < t[i]
          /\ \A j \in 1..(i - 1) : s[j] = t[j]
    \/ /\ Len(s) < Len(t)
       /\ \A j \in 1..Len(s) : s[j] = t[j]

compare_versions(v1, v2) ==
    LET ver1 == parse_version(v1)
        ver2 == parse_version(v2)
    IN IF TupleLess(ver2, ver1) THEN 1
       ELSE IF TupleLess(ver1, ver2) THEN -1
       ELSE 0


\* What the hub client answers: fetch_pack_info raises HubError, finds no
\* entry of that name, or returns the entry.
HubPackInfo(name, version, checksum) ==
    [name |-> name, version |-> version, checksum |-> checksum]
NoInfo == HubPackInfo(None, V1, None)
HubRaises == [kind |-> "error", info |-> NoInfo]
HubAbsent == [kind |-> "absent", info |-> NoInfo]
HubFound(info) == [kind |-> "found", info |-> info]

\* manifest.version when metadata.json holds "version": null.
NoVersion == <<"None">>

\* PackUpdater.check_update_available raises UpdateError: fetch_pack_info
\* raised HubError.
check_update_raises(hub) == hub.kind = "error"

\* PackUpdater.check_update_available, given what fetch_pack_info answers,
\* when it does not raise.
check_update_not_older(hub, current_version) ==
    IF hub.kind # "found" THEN FALSE
    ELSE IF current_version = NoVersion THEN TRUE
    ELSE compare_versions(hub.info.version, current_version) >= 0
check_update_available(hub, current_version) ==
    IF hub.kind # "found" THEN FALSE
    ELSE IF current_version = NoVersion THEN TRUE
    ELSE compare_versions(hub.info.version, current_version) > 0

\* A downloaded archive: a zip file (readable or not) with its digest, the
\* layout of its entries (all under one wrapper directory, or at the root),
\* and the pack files it carries.
Archive(zip, digest, layout, meta, sdir, files) ==
    [zip |-> zip, digest |-> digest, layout |-> layout, meta |-> meta,
     sdir |-> sdir, files |-> files]

\* HubClient.calculate_checksum over the downloaded file.
calculate_checksum(archive) == archive.digest

\* PackUpdater.download_pack raises UpdateError (and leaves no file): the
\* transfer fails, or the entry has a checksum and the file's differs.
download_pack_raises(pack_info, archive, fault) ==
    \/ fault = "download"
    \/ /\ pack_info.checksum # None
       /\ calculate_checksum(archive) # pack_info.checksum

\* A slip of download_pack: the file written so far is left in place.
keep_output(file) == file

\* download_pack's output_file.unlink() on its failure paths.
unlink_output(file) == "none"

\* What download_pack found and did: the entry's checksum, the digest of the
\* served archive, whether it raised UpdateError, and the file at
\* <output_dir>/<name>.zip when it ended ("none", "partial" or "full").
Download(checksum, digest, raised, file) ==
    [checksum |-> checksum, digest |-> digest, raised |-> raised, file |-> file]
NoDownload == Download(None, "d0", FALSE, "none")

\* PackUpdater.download_pack: the transfer writes the file (a transport error
\* leaves a part of it), the checksum is verified when the entry has one, and
\* every failure removes the file.
download_pack(pack_info, archive, fault) ==
    LET ended(raised, file) ==
            Download(pack_info.checksum, calculate_checksum(archive), raised, file)
    IN IF fault = "download" THEN ended(TRUE, unlink_output("partial"))
       ELSE IF download_pack_raises(pack_info, archive, fault)
       THEN ended(TRUE, unlink_output("full"))
       ELSE ended(FALSE, "full")

\* PackUpdater.extract_pack: the pack root is the single top-level directory
\* of the extraction when there is exactly one, else the extraction directory.
extract_pack(archive) ==
    IF archive.layout = "wrapped"
    THEN Dir(archive.meta, archive.sdir, archive.files)
    ELSE IF archive.sdir
         THEN \* stickers/ is the only directory: it is taken as the pack root
              Dir(MissingMeta, FALSE, {})
         ELSE Dir(archive.meta, FALSE, {})

\* A slip of install_pack: the extraction directory is removed at the end of
\* the try block, not in a finally, so it stays when the install raises.
cleanup_extract_unless_raised(raised, exists) == exists /\ raised

\* install_pack's finally: packs/.temp_extract is removed if it exists.
\* Gives whether it exists afterwards.
cleanup_extract(raised, exists) == FALSE

\* Whether packs/.temp_extract is still there after the move of the pack
\* root: not when the pack root was the extraction directory itself.
extract_left(archive) == archive.layout = "wrapped" \/ archive.sdir

InstallRaised(dsk, exists) ==
    [raised |-> TRUE, disk |-> dsk, final_name |-> None,
     temp_extract |-> cleanup_extract(TRUE, exists)]

\* A slip of install_pack: the pack is moved into the directory that is there.
merge_dir(old, pack_dir) ==
    IF old.exists
    THEN [pack_dir EXCEPT !.sdir = old.sdir \/ pack_dir.sdir,
                          !.files = old.files \cup pack_dir.files]
    ELSE pack_dir

\* install_pack's rmtree(final_dir) and move(pack_dir, final_dir): what is at
\* the final name afterwards.
replace_dir(old, pack_dir) == pack_dir

\* A slip of install_pack: the directory at the given name is removed before
\* the archive is extracted and validated.
updater_install_removes_first(dsk, archive, pack_name, fault) ==
    LET cleared == IF pack_name # None THEN [dsk EXCEPT ![pack_name] = NoDir] ELSE dsk
        pack_dir == extract_pack(archive)
        manifest == [load_manifest(pack_dir) EXCEPT
                        !.stickers = discover_stickers(pack_dir)]
        final_name == IF pack_name # None THEN pack_name ELSE manifest.name
        removed == [cleared EXCEPT ![final_name] = NoDir]
        moved == [cleared EXCEPT ![final_name] = replace_dir(@, pack_dir)]
        saved == [cleared EXCEPT ![final_name] = save_manifest(moved[final_name], manifest)]
    IN IF archive.zip = "bad" \/ fault = "extract" THEN InstallRaised(cleared, TRUE)
       ELSE IF load_manifest_raises(pack_dir) THEN InstallRaised(cleared, TRUE)
       ELSE IF fault = "move" THEN InstallRaised(removed, TRUE)
       ELSE IF fault = "save" THEN InstallRaised(moved, extract_left(archive))
       ELSE [raised |-> FALSE, disk |-> saved, final_name |-> final_name,
             temp_extract |-> cleanup_extract(FALSE, extract_left(archive))]

\* PackUpdater.install_pack on the directories of packs/: extract, validate,
\* remove what is at the final name, move, rewrite metadata.json.
updater_install_pack(dsk, archive, pack_name, fault) ==
    LET pack_dir == extract_pack(archive)
        manifest == [load_manifest(pack_dir) EXCEPT
                        !.stickers = discover_stickers(pack_dir)]
        final_name == IF pack_name # None THEN pack_name ELSE manifest.name
        removed == [dsk EXCEPT ![final_name] = NoDir]
        moved == [dsk EXCEPT ![final_name] = replace_dir(@, pack_dir)]
        saved == [dsk EXCEPT ![final_name] = save_manifest(moved[final_name], manifest)]
    IN IF archive.zip = "bad" \/ fault = "extract" THEN InstallRaised(dsk, TRUE)
       ELSE IF load_manifest_raises(pack_dir) THEN InstallRaised(dsk, TRUE)
       ELSE IF fault = "rmtree" /\ dsk[final_name].exists
       THEN InstallRaised(dsk, TRUE)
       ELSE IF fault = "move" THEN InstallRaised(removed, TRUE)
       ELSE IF fault = "save" THEN InstallRaised(moved, extract_left(archive))
       ELSE [raised |-> FALSE, disk |-> saved, final_name |-> final_name,
             temp_extract |-> cleanup_extract(FALSE, extract_left(archive))]

\* ----------------------------------------------------- StickerPackManager

PackEvent(pack_name, state, error) ==
    [pack_name |-> pack_name, state |-> state, error |-> error]

\* A slip of _emit_event: the exception of a listener ends the loop over the
\* listeners.
call_listeners_until_raise(s, event) ==
    IF s.raises THEN s ELSE [s EXCEPT !.events = Append(@, event)]

\* _emit_event's loop over two registered listeners, of which the first
\* raises on every event when s.raises: its exception is swallowed and the
\* second is called.  s.events is what the second listener was called with.
call_listeners(s, event) == [s EXCEPT !.events = Append(@, event)]

\* _emit_event: the event reaches the listeners.
emit_event(s, pack_name, state, error) ==
    call_listeners(s, PackEvent(pack_name, state, error))

Put(f, k, v) == [x \in DOMAIN f \cup {k} |-> IF x = k THEN v ELSE f[x]]
Pop(f, k) == [x \in DOMAIN f \ {k} |-> f[x]]
Empty == [x \in {} |-> None]

Pack(pack_dir) == [pack_dir |-> pack_dir]

\* A slip of _load_pack: a failed load is swallowed without an ERROR event.
load_pack_unreported(s, pack_name, read_fails) ==
    LET dir == s.disk[pack_name]
        s1 == emit_event(s, pack_name, "loading", FALSE)
        manifest == [load_manifest(dir) EXCEPT !.stickers = discover_stickers(dir)]
        s2 == [s1 EXCEPT !.packs = Put(@, pack_name, Pack(pack_name)),
                         !.manifests = Put(@, pack_name, manifest)]
    IN IF read_fails \/ load_manifest_raises(dir)
       THEN s1
       ELSE emit_event(s2, pack_name, "loaded", FALSE)

\* A slip of _load_pack: LOADED is emitted with the manifest not registered.
load_pack_unregistered(s, pack_name, read_fails) ==
    LET dir == s.disk[pack_name]
        s1 == emit_event(s, pack_name, "loading", FALSE)
        s2 == [s1 EXCEPT !.packs = Put(@, pack_name, Pack(pack_name))]
    IN IF read_fails \/ load_manifest_raises(dir)
       THEN emit_event(s1, pack_name, "error", TRUE)
       ELSE emit_event(s2, pack_name, "loaded", FALSE)

\* The order of the names under sorted().
NameRank(n) == CASE n = DotName -> 0 [] n = "a" -> 1 [] n = "b" -> 2 [] OTHER -> 3

RECURSIVE SortedNames(_)
SortedNames(S) ==
    IF S = {} THEN <<>>
    ELSE LET m == CHOOSE x \in S : \A y \in S : NameRank(x) <= NameRank(y)
         IN <<m>> \o SortedNames(S \ {m})

\* A slip of reload: one entry is dropped from each registry (popitem() in
\* place of clear()).
drop_one_entry(s) ==
    LET rest(reg) ==
            IF DOMAIN reg = {} THEN reg
            ELSE LET last == CHOOSE n \in DOMAIN reg :
                                \A m \in DOMAIN reg : NameRank(m) <= NameRank(n)
                 IN [n \in DOMAIN reg \ {last} |-> reg[n]]
    IN [s EXCEPT !.packs = rest(@), !.manifests = rest(@), !.configs = rest(@)]

\* reload(), its first three statements: packs, manifests and configs are
\* cleared.
clear_registries(s) == [s EXCEPT !.packs = Empty, !.manifests = Empty, !.configs = Empty]

\* _load_pack: LOADING, then the manifest and the stickers are read and the
\* pack registered (LOADED), or the exception is reported (ERROR) and
\* swallowed.  read_fails: the read of the directory raises.
load_pack(s, pack_name, read_fails) ==
    LET dir == s.disk[pack_name]
        s1 == emit_event(s, pack_name, "loading", FALSE)
        manifest == [load_manifest(dir) EXCEPT !.stickers = discover_stickers(dir)]
        s2 == [s1 EXCEPT !.packs = Put(@, pack_name, Pack(pack_name)),
                         !.manifests = Put(@, pack_name, manifest)]
    IN IF read_fails \/ load_manifest_raises(dir)
       THEN emit_event(s1, pack_name, "error", TRUE)
       ELSE emit_event(s2, pack_name, "loaded", FALSE)

\* config.json: missing, not loadable, or its "packs" map.  NotAConfig is an
\* entry PackConfig.from_dict raises on (a value that is not an object).
ConfigFile(kind, entries) == [kind |-> kind, packs |-> entries]
PackConfig(name) == [name |-> name, enabled |-> TRUE]
NotAConfig == [name |-> None, enabled |-> FALSE]

\* _load_config: the entries of a loadable file are put into configs one by
\* one, in the order of the file (by name, in the files of the model), until
\* one of them raises; the exception is swallowed.
load_config(s) ==
    IF s.config_file.kind # "json" THEN s
    ELSE LET entries == s.config_file.packs
             names == SortedNames(DOMAIN entries)
             raises_at == {i \in 1..Len(names) : entries[names[i]] = NotAConfig}
             read == {names[i] : i \in {k \in 1..Len(names) :
                                            \A r \in raises_at : k < r}}
         IN [s EXCEPT !.configs =
                [n \in DOMAIN @ \cup read |->
                    IF n \in read THEN entries[n] ELSE @[n]]]

\* _save_config: the file is rewritten from the whole configs map.
save_config(s) == [s EXCEPT !.config_file = ConfigFile("json", s.configs)]

\* <base>/.temp, the archive downloaded into it, and packs/.temp_extract.
Temp(work, zip, extract) == [work |-> work, zip |-> zip, extract |-> extract]
NoTemp == Temp(FALSE, "none", FALSE)

\* The finally of install_pack and update_pack: <base>/.temp is removed with
\* what it holds.
cleanup_temp(s) == [s EXCEPT !.temp.work = FALSE, !.temp.zip = "none"]

\* How an operation ended: the state it left, "ok" or "raised", the step it
\* ended in, and what its download_pack did.
Ended(s, result, stage, dl) == [s |-> s, result |-> result, stage |-> stage, dl |-> dl]
Outcome(s, result, stage) == Ended(s, result, stage, NoDownload)

\* install_pack, from INSTALLING to its return or its ManagerError.
install_pack(s, pack_info, pack_name, archive, fault) ==
    LET final_name == IF pack_name # None THEN pack_name ELSE pack_info.name
        s1 == emit_event(s, final_name, "installing", FALSE)
        dl == download_pack(pack_info, archive, fault)
        t1 == [s1 EXCEPT !.temp.work = TRUE, !.temp.zip = dl.file]
        inst == updater_install_pack(t1.disk, archive, final_name, fault)
        s2 == [t1 EXCEPT !.disk = inst.disk, !.temp.extract = inst.temp_extract]
        s3 == load_pack([s2 EXCEPT !.temp.zip = "none"], final_name, fault = "load")
        ended(x, result, stage) == Ended(cleanup_temp(x), result, stage, dl)
    IN IF dl.raised
       THEN ended(emit_event(t1, final_name, "error", TRUE), "raised", "download")
       ELSE IF inst.raised
       THEN ended(emit_event(s2, final_name, "error", TRUE), "raised", "install")
       ELSE ended(emit_event(s3, final_name, "installed", FALSE), "ok", "done")

\* A slip of update_pack: only an unregistered name is refused.
no_update_url_unregistered(s, pack_name) == pack_name \notin DOMAIN s.manifests

\* update_pack's first check: no manifest for the name, or a manifest without
\* url (none or empty).
no_update_url(s, pack_name) ==
    \/ pack_name \notin DOMAIN s.manifests
    \/ s.manifests[pack_name].url \in {None, ""}

\* What the spec describes: the registry entries go with the old directory.
remove_old_pack_and_entries(s, pack_name) ==
    [s EXCEPT !.disk[pack_name] = NoDir,
              !.packs = Pop(@, pack_name),
              !.manifests = Pop(@, pack_name)]

\* update_pack's removal of the old pack: rmtree of its directory.
remove_old_pack(s, pack_name) == [s EXCEPT !.disk[pack_name] = NoDir]

\* A slip of update_pack: the old directory is removed before the download.
update_pack_removes_first(s, pack_name, hub, archive, fault) ==
    LET s1 == emit_event(s, pack_name, "updating", FALSE)
        failed(x, stage) ==
            Outcome(cleanup_temp(emit_event(x, pack_name, "error", TRUE)),
                    "raised", stage)
        dl == download_pack(hub.info, archive, fault)
        t1 == remove_old_pack([s1 EXCEPT !.temp.work = TRUE, !.temp.zip = dl.file],
                              pack_name)
        inst == updater_install_pack(t1.disk, archive, pack_name, fault)
        s3 == [t1 EXCEPT !.disk = inst.disk, !.temp.extract = inst.temp_extract]
        s4 == load_pack([s3 EXCEPT !.temp.zip = "none"], pack_name, fault = "load")
        ended(x, result, stage) == Ended(cleanup_temp(x), result, stage, dl)
    IN IF no_update_url(s, pack_name) THEN failed(s1, "nourl")
       ELSE IF hub.kind = "error" THEN failed(s1, "hub")
       ELSE IF hub.kind = "absent" THEN failed(s1, "nohub")
       ELSE IF ~check_update_available(hub, s.manifests[pack_name].version)
       THEN Outcome(cleanup_temp(s1), "ok", "uptodate")
       ELSE IF dl.raised
       THEN ended(emit_event(t1, pack_name, "error", TRUE), "raised", "download")
       ELSE IF inst.raised
       THEN ended(emit_event(s3, pack_name, "error", TRUE), "raised", "install")
       ELSE ended(emit_event(s4, pack_name, "updated", FALSE), "ok", "done")

\* update_pack, from UPDATING to its return or its ManagerError.
update_pack(s, pack_name, hub, archive, fault) ==
    LET s1 == emit_event(s, pack_name, "updating", FALSE)
        failed(x, stage) ==
            Outcome(cleanup_temp(emit_event(x, pack_name, "error", TRUE)),
                    "raised", stage)
        dl == download_pack(hub.info, archive, fault)
        t1 == [s1 EXCEPT !.temp.work = TRUE, !.temp.zip = dl.file]
        s2 == remove_old_pack(t1, pack_name)
        inst == updater_install_pack(s2.disk, archive, pack_name, fault)
        s3 == [s2 EXCEPT !.disk = inst.disk, !.temp.extract = inst.temp_extract]
        s4 == load_pack([s3 EXCEPT !.temp.zip = "none"], pack_name, fault = "load")
        ended(x, result, stage) == Ended(cleanup_temp(x), result, stage, dl)
    IN IF no_update_url(s, pack_name) THEN failed(s1, "nourl")
       ELSE IF hub.kind = "error" THEN failed(s1, "hub")
       ELSE IF hub.kind = "absent" THEN failed(s1, "nohub")
       ELSE IF ~check_update_available(hub, s.manifests[pack_name].version)
       THEN Outcome(cleanup_temp(s1), "ok", "uptodate")
       ELSE IF dl.raised
       THEN ended(emit_event(t1, pack_name, "error", TRUE), "raised", "download")
       ELSE IF fault = "rmtree_old" /\ s.disk[pack_name].exists
       THEN ended(emit_event(t1, pack_name, "error", TRUE), "raised", "rmtree_old")
       ELSE IF inst.raised
       THEN ended(emit_event(s3, pack_name, "error", TRUE), "raised", "install")
       ELSE ended(emit_event(s4, pack_name, "updated", FALSE), "ok", "done")

\* A slip of delete_pack: the pack's config stays.
purge_keeps_config(s, pack_name) ==
    [s EXCEPT !.packs = Pop(@, pack_name), !.manifests = Pop(@, pack_name)]

\* A slip of delete_pack: the manifest of the pack stays registered.
purge_keeps_manifest(s, pack_name) ==
    [s EXCEPT !.packs = Pop(@, pack_name), !.configs = Pop(@, pack_name)]

\* delete_pack's three pops.
purge(s, pack_name) ==
    [s EXCEPT !.packs = Pop(@, pack_name),
              !.manifests = Pop(@, pack_name),
              !.configs = Pop(@, pack_name)]

\* delete_pack, from DELETING to its return or its ManagerError.
delete_pack(s, pack_name, fault) ==
    LET s1 == emit_event(s, pack_name, "deleting", FALSE)
        s2 == purge([s1 EXCEPT !.disk[pack_name] = NoDir], pack_name)
    IN IF fault = "rmtree" /\ s.disk[pack_name].exists
       THEN Outcome(emit_event(s1, pack_name, "error", TRUE), "raised", "rmtree")
       ELSE IF fault = "save"
       THEN Outcome(emit_event(s2, pack_name, "error", TRUE), "raised", "save")
       ELSE Outcome(emit_event(save_config(s2), pack_name, "deleted", FALSE),
                    "ok", "done")


\* ------------------------------------------------------------- the inputs

\* The archives the hub serves.
GoodZip(layout, meta, sdir, files) == Archive("ok", "d1", layout, meta, sdir, files)
ArchiveA1 == GoodZip("wrapped", Meta("a", "A", V1, "u"), TRUE, {File(1, "png")})
ArchiveA10 ==
    GoodZip("wrapped", Meta("a", "A", V10, "u"), TRUE,
            {File(2, "png"), File(1, "txt")})
ArchiveFlat == GoodZip("flat", Meta("b", "B", V1, None), FALSE, {})
ArchiveFlatStickers == GoodZip("flat", Meta("a", "A", V1, "u"), TRUE, {File(1, "png")})
ArchiveNoName == GoodZip("wrapped", Meta("", "A", V1, None), TRUE, {File(1, "png")})
ArchiveBadJson == GoodZip("wrapped", CorruptMeta, TRUE, {File(1, "png")})
ArchiveBadZip == Archive("bad", "d0", "wrapped", MissingMeta, FALSE, {})
NoArchive == Archive("none", "d0", "wrapped", MissingMeta, FALSE, {})
Archives ==
    {ArchiveA1, ArchiveA10, ArchiveFlat, ArchiveFlatStickers,
     ArchiveNoName, ArchiveBadJson, ArchiveBadZip}

\* The hub entries install_pack is called with.
InstallInfos ==
    {HubPackInfo("a", V1, None), HubPackInfo("b", V1, "d1"), HubPackInfo("a", V1, "dX")}

\* What fetch_pack_info(pack_name) answers during update_pack.
HubAnswers(pack_name) ==
    {HubRaises, HubAbsent, HubFound(HubPackInfo(pack_name, V2, "dX"))}
    \cup {HubFound(HubPackInfo(pack_name, v, None)) : v \in {V1, V10, V2}}

\* The step of an operation at which the file system or the network fails.
InstallFaults == {"download", "extract", "rmtree", "move", "save", "load"}
UpdateFaults == {"download", "rmtree_old", "extract", "move", "save", "load"}
DeleteFaults == {"none", "rmtree", "save"}

\* The runs of install_pack and update_pack: every archive without a failure,
\* and each failure with an archive that would have installed.
Runs(faults) ==
    {<<archive, "none">> : archive \in Archives}
    \cup {<<ArchiveA10, fault>> : fault \in faults}
    \cup {<<ArchiveA1, "load">>}

\* The directories packs/ may hold when the manager is constructed.
InitDirs ==
    {NoDir,
     extract_pack(ArchiveA1),
     Dir(CorruptMeta, TRUE, {File(1, "png")}),
     Dir(MissingMeta, TRUE, {File(1, "png")})}

InitConfigFiles ==
    {ConfigFile("missing", Empty), ConfigFile("corrupt", Empty),
     ConfigFile("json", [n \in Names |-> PackConfig(n)])}

\* ------------------------------------------------- MemeMakerPlugin sessions

Users == {"u1", "u2"}
SessionTypes == {"delete_confirm", "generate_pack"}

\* StickerParams, of which the generation steps fill pack, sticker and text.
StickerParams(pack, sticker, text) == [pack |-> pack, sticker |-> sticker, text |-> text]

\* The data of a session: {'pack_name': ...} of a delete_confirm session,
\* {'params': ...} of a generation session.
DeleteData(pack_name) == [pack_name |-> pack_name]
GenerateData(params) == [params |-> params]
SessionData(session_type) ==
    IF session_type = "delete_confirm" THEN DeleteData("a")
    ELSE GenerateData(StickerParams(None, None, None))

UserSession(user_id, session_type, data, timeout) ==
    [user_id |-> user_id, session_type |-> session_type, data |-> data,
     timeout |-> timeout]
NoSession == UserSession(None, "none", DeleteData(None), 0)

\* What a session operation leaves in user_sessions, and what it returns.
SessionResult(sessions, ret) == [sessions |-> sessions, ret |-> ret]

\* A slip of create_session: a user who has a session keeps it.
create_session_if_absent(sessions, user_id, session_type, data, at) ==
    IF user_id \in DOMAIN sessions
    THEN SessionResult(sessions, sessions[user_id])
    ELSE LET session == UserSession(user_id, session_type, data, at + SessionTimeout)
         IN SessionResult(Put(sessions, user_id, session), session)

\* create_session at time at.
create_session(sessions, user_id, session_type, data, at) ==
    LET session == UserSession(user_id, session_type, data, at + SessionTimeout)
    IN SessionResult(Put(sessions, user_id, session), session)

\* A slip of get_session: the expiry is not looked at.
get_session_expired_too(sessions, user_id, at) ==
    IF user_id \in DOMAIN sessions
    THEN SessionResult(sessions, sessions[user_id])
    ELSE SessionResult(sessions, NoSession)

\* A slip of get_session: a session is still live at its expiry.
get_session_at_expiry(sessions, user_id, at) ==
    IF user_id \in DOMAIN sessions /\ at <= sessions[user_id].timeout
    THEN SessionResult(sessions, sessions[user_id])
    ELSE SessionResult(Pop(sessions, user_id), NoSession)

\* get_session at time at: the session if now < timeout; an expired one is
\* deleted and none returned.
get_session(sessions, user_id, at) ==
    IF user_id \in DOMAIN sessions /\ at < sessions[user_id].timeout
    THEN SessionResult(sessions, sessions[user_id])
    ELSE IF user_id \in DOMAIN sessions
    THEN SessionResult(Pop(sessions, user_id), NoSession)
    ELSE SessionResult(sessions, NoSession)

\* A slip of clear_session: the session stays.
clear_session_keeps(sessions, user_id) == SessionResult(sessions, NoSession)

\* clear_session.
clear_session(sessions, user_id) == SessionResult(Pop(sessions, user_id), NoSession)

\* A slip of cleanup_sessions: a session stays at the tick of its expiry.
cleanup_after_expiry(sessions, at) ==
    LET expired_users == {u \in DOMAIN sessions : at > sessions[u].timeout}
    IN [u \in DOMAIN sessions \ expired_users |-> sessions[u]]

\* One pass of the loop of cleanup_sessions at time at.
cleanup_pass(sessions, at) ==
    LET expired_users == {u \in DOMAIN sessions : at >= sessions[u].timeout}
    IN [u \in DOMAIN sessions \ expired_users |-> sessions[u]]

\* ------------------------------------------------------- HubClient's cache

\* The catalogs the hub serves at /packs.
CatalogA == <<HubPackInfo("a", V1, None)>>
CatalogB == <<HubPackInfo("a", V2, "d1"), HubPackInfo("b", V1, None)>>
Catalogs == {<<>>, CatalogA, CatalogB}

\* _pack_cache and _cache_time: None, or a value.
Cache(set, packs) == [set |-> set, packs |-> packs]
NoCache == Cache(FALSE, <<>>)
CacheTime(set, at) == [set |-> set, at |-> at]
NoCacheTime == CacheTime(FALSE, 0)

\* What the request to /packs comes to: the catalog, or a failure of the
\* transport, a non-success HTTP status, a body that is not JSON, a body
\* whose status is not "success", or an entry that from_dict rejects.
Response(kind, packs) == [kind |-> kind, packs |-> packs]
FailureKinds == {"transport", "http_status", "malformed", "hub_error", "bad_entry"}
Responses ==
    {Response("ok", c) : c \in Catalogs} \cup {Response(k, <<>>) : k \in FailureKinds}

\* A slip of fetch_packs: a cache whose age equals cache_ttl is still used.
cache_fresh_at_ttl(cache, cache_time, force_refresh, at) ==
    /\ ~force_refresh
    /\ cache.set
    /\ cache_time.set
    /\ at - cache_time.at <= CacheTtl

\* fetch_packs' cache check: not forced, a cache and its time are set, and
\* the age is below cache_ttl.
cache_fresh(cache, cache_time, force_refresh, at) ==
    /\ ~force_refresh
    /\ cache.set
    /\ cache_time.set
    /\ at - cache_time.at < CacheTtl

\* What fetch_packs leaves and gives: the cache and its time, the list
\* returned, whether HubError was raised, and the number of requests.
Fetched(cache, cache_time, ret, raised, requests) ==
    [cache |-> cache, cache_time |-> cache_time, ret |-> ret, raised |-> raised,
     requests |-> requests]

\* HubClient.fetch_packs at time at, the request (if one is issued) coming
\* to response.
fetch_packs(cache, cache_time, force_refresh, at, response) ==
    IF cache_fresh(cache, cache_time, force_refresh, at)
    THEN Fetched(cache, cache_time, cache.packs, FALSE, 0)
    ELSE IF response.kind # "ok"
    THEN Fetched(cache, cache_time, <<>>, TRUE, 1)
    ELSE Fetched(Cache(TRUE, response.packs), CacheTime(TRUE, at),
                 response.packs, FALSE, 1)

\* ------------------------------------------------------------------ state

VARIABLES
    disk,         \* packs/: directory name -> directory
    packs,        \* self.packs
    manifests,    \* self.manifests
    configs,      \* self.configs
    config_file,  \* <base>/config.json
    events,       \* the events the listeners got since the operation began
    pc,           \* "idle", "reload" (scanning) or "done" (returned or raised)
    todo,         \* reload: the entries of packs/ still to visit
    op,           \* the operation in progress or just finished
    temp,         \* <base>/.temp, its archive, and packs/.temp_extract
    raising,      \* whether the first registered listener raises on every event
    user_sessions,  \* the plugin's user_sessions
    sess_op,      \* the last session operation
    terminated,   \* whether terminate() has completed
    now,          \* datetime.now()
    pack_cache,   \* a HubClient's _pack_cache
    cache_time,   \* a HubClient's _cache_time
    hub_op,       \* the last operation on the HubClient
    call          \* the last call of a function of Pack or PackUpdater

manager_vars ==
    <<disk, packs, manifests, configs, config_file, events, pc, todo, op, temp,
      raising>>
session_vars == <<user_sessions, sess_op, terminated>>
hub_vars == <<pack_cache, cache_time, hub_op>>
vars == <<manager_vars, session_vars, hub_vars, call, now>>

\* What an operation found when it began.
Snapshot ==
    [disk |-> disk, packs |-> packs, manifests |-> manifests, configs |-> configs,
     config_file |-> config_file]
NoSnapshot ==
    [disk |-> [d \in DirNames |-> NoDir], packs |-> Empty, manifests |-> Empty,
     configs |-> Empty, config_file |-> ConfigFile("missing", Empty)]

\* The operation in progress or just finished: its kind, the pack name, how
\* it ended and where, the archive it installed, the hub's answer, the step
\* that failed in the file system or the network, and what it began with.
Op(kind, name, result, stage, archive, hub, fault, before, dl) ==
    [kind |-> kind, name |-> name, result |-> result, stage |-> stage,
     archive |-> archive, hub |-> hub, fault |-> fault, before |-> before,
     dl |-> dl]
NoOp ==
    Op("none", None, "none", "none", NoArchive, HubAbsent, "none", NoSnapshot,
       NoDownload)

\* The manager's world at the start of an operation.
State ==
    [disk |-> disk, packs |-> packs, manifests |-> manifests, configs |-> configs,
     config_file |-> config_file, events |-> <<>>, temp |-> temp,
     raises |-> raising]

Becomes(s) ==
    /\ disk' = s.disk
    /\ packs' = s.packs
    /\ manifests' = s.manifests
    /\ configs' = s.configs
    /\ config_file' = s.config_file
    /\ events' = s.events
    /\ temp' = s.temp
    /\ raising' = s.raises

\* The last session operation: its kind and user, what it returned, and the
\* sessions and the time it began with.
SessOp(kind, user_id, ret, before, at) ==
    [kind |-> kind, user_id |-> user_id, ret |-> ret, before |-> before, at |-> at]
NoSessOp == SessOp("none", None, NoSession, Empty, 0)

\* The last operation on the HubClient: its kind, force_refresh, what the
\* request came to, what fetch_packs returned, whether it raised, how many
\* requests it issued, and the cache, its time and the time it began with.
HubOp(kind, force_refresh, response, ret, raised, requests, cache, time, at) ==
    [kind |-> kind, force_refresh |-> force_refresh, response |-> response,
     ret |-> ret, raised |-> raised, requests |-> requests, cache |-> cache,
     time |-> time, at |-> at]
NoHubOp ==
    HubOp("none", FALSE, Response("none", <<>>), <<>>, FALSE, 0, NoCache,
          NoCacheTime, 0)

\* A plugin without sessions, and a HubClient as constructed.
NoSessions == user_sessions = Empty /\ sess_op = NoSessOp /\ terminated = FALSE
NoHub == pack_cache = NoCache /\ cache_time = NoCacheTime /\ hub_op = NoHubOp

\* A call of _compare_versions(v1, v2) or of
\* check_update_available(name, current_version = v2) with the hub holding
\* version v1 of the pack, absent it, or failing.
Call(fn, v1, v2, hub, cmp, available, raised) ==
    [fn |-> fn, v1 |-> v1, v2 |-> v2, hub |-> hub, cmp |-> cmp,
     available |-> available, raised |-> raised]
NoCall == [fn |-> "none"]

Init ==
    /\ NoSessions
    /\ NoHub
    /\ now = 0
    /\ call = NoCall
    /\ disk \in [DirNames -> InitDirs]
    /\ disk[DotName] = extract_pack(ArchiveA1)
    /\ packs = Empty
    /\ manifests = Empty
    /\ configs = Empty
    /\ config_file \in InitConfigFiles
    /\ events = <<>>
    /\ pc = "idle"
    /\ todo = {}
    /\ op = NoOp
    /\ temp = NoTemp
    /\ raising \in BOOLEAN

\* reload(), up to the scan: the three registries are cleared and packs/ is
\* listed.
ReloadStarts(kind) ==
    /\ pc' = "reload"
    /\ op' = Op(kind, None, "running", "scan", NoArchive, HubAbsent, "none", Snapshot,
              NoDownload)
    /\ Becomes(clear_registries(State))
    /\ todo' = {d \in DirNames : disk[d].exists}
    /\ UNCHANGED <<session_vars, hub_vars, call, now>>

ReloadBegin ==
    /\ pc = "idle"
    /\ ReloadStarts("reload")

\* Whether reload's loop body takes the entry: a directory whose name does
\* not start with a dot.
ScanTakes(d) == d # DotName

\* reload(), one entry of iterdir(): _load_pack for a directory that does
\* not start with a dot.
ReloadScan ==
    /\ pc = "reload"
    /\ \E d \in todo :
          /\ todo' = todo \ {d}
          /\ IF ScanTakes(d)
             THEN Becomes(load_pack([State EXCEPT !.events = events], d, FALSE))
             ELSE UNCHANGED <<disk, packs, manifests, configs, config_file, events,
                              temp, raising>>
    /\ UNCHANGED <<pc, op, session_vars, hub_vars, call, now>>

\* reload(), after the scan: _load_config, and the return.
ReloadEnd ==
    /\ pc = "reload"
    /\ todo = {}
    /\ Becomes(load_config([State EXCEPT !.events = events]))
    /\ pc' = "done"
    /\ op' = [op EXCEPT !.result = "ok", !.stage = "done"]
    /\ UNCHANGED <<todo, session_vars, hub_vars, call, now>>

Install ==
    /\ pc = "idle"
    /\ \E pack_info \in InstallInfos, pack_name \in {None, "b"},
          run \in Runs(InstallFaults) :
          LET r == install_pack(State, pack_info, pack_name, run[1], run[2])
          IN /\ Becomes(r.s)
             /\ op' = Op("install",
                         IF pack_name # None THEN pack_name ELSE pack_info.name,
                         r.result, r.stage,
                         IF r.result = "ok" THEN run[1] ELSE NoArchive,
                         HubAbsent, run[2], Snapshot, r.dl)
    /\ pc' = "done"
    /\ UNCHANGED <<todo, session_vars, hub_vars, call, now>>

Update ==
    /\ pc = "idle"
    /\ \E pack_name \in Names, run \in Runs(UpdateFaults) :
          \E hub \in IF run = <<ArchiveA10, "none">>
                      THEN HubAnswers(pack_name)
                      ELSE {HubFound(HubPackInfo(pack_name, V2, None))} :
             LET r == update_pack(State, pack_name, hub, run[1], run[2])
             IN /\ Becomes(r.s)
                /\ op' = Op("update", pack_name, r.result, r.stage,
                            IF r.result = "ok" /\ r.stage = "done"
                            THEN run[1] ELSE NoArchive,
                            IF r.stage = "nourl" THEN HubAbsent ELSE hub,
                            run[2], Snapshot, r.dl)
    /\ pc' = "done"
    /\ UNCHANGED <<todo, session_vars, hub_vars, call, now>>

Delete ==
    /\ pc = "idle"
    /\ \E pack_name \in Names, fault \in DeleteFaults :
          LET r == delete_pack(State, pack_name, fault)
          IN /\ Becomes(r.s)
             /\ op' = Op("delete", pack_name, r.result, r.stage, NoArchive,
                         HubAbsent, fault, Snapshot, r.dl)
    /\ pc' = "done"
    /\ UNCHANGED <<todo, session_vars, hub_vars, call, now>>

\* The caller has the result; the next operation may begin.
Return ==
    /\ pc = "done"
    /\ pc' = "idle"
    /\ op' = NoOp
    /\ events' = <<>>
    /\ UNCHANGED <<disk, packs, manifests, configs, config_file, todo, temp,
                   raising, session_vars, hub_vars, call, now>>

Next ==
    \/ ReloadBegin
    \/ ReloadScan
    \/ ReloadEnd
    \/ Install
    \/ Update
    \/ Delete
    \/ Return

Spec == Init /\ [][Next]_vars

\* ------------------------------------------------ reload() called in a row

\* The caller has the result of a reload and calls reload() again, with
\* nothing done in between.
ReloadAgain ==
    /\ pc = "done"
    /\ op.kind \in {"reload", "reload_again"}
    /\ ReloadStarts("reload_again")

\* config.json as the first reload may find it: missing, not JSON, a map of
\* entries, or a map with an entry that is not an object.
ReloadConfigFiles ==
    InitConfigFiles \cup
        {ConfigFile("json", [n \in Names |->
            IF n = "b" THEN NotAConfig ELSE PackConfig(n)])}

\* The manager before the first of the reloads: any directories, and in the
\* registries the packs of earlier operations, whatever has become of their
\* directories since.
ReloadInit ==
    /\ NoSessions
    /\ NoHub
    /\ now = 0
    /\ call = NoCall
    /\ disk \in [DirNames -> InitDirs]
    /\ disk[DotName] = extract_pack(ArchiveA1)
    /\ \E registered \in SUBSET Names :
          /\ packs = [n \in registered |-> Pack(n)]
          /\ manifests = [n \in registered |-> load_manifest(extract_pack(ArchiveA1))]
          /\ configs = [n \in registered |-> PackConfig(n)]
    /\ config_file \in ReloadConfigFiles
    /\ events = <<>>
    /\ pc = "idle"
    /\ todo = {}
    /\ op = NoOp
    /\ temp = NoTemp
    /\ raising \in BOOLEAN

ReloadNext ==
    \/ ReloadBegin
    \/ ReloadScan
    \/ ReloadEnd
    \/ ReloadAgain

ReloadSpec == ReloadInit /\ [][ReloadNext]_vars

\* ------------------------------------------------ the plugin's sessions

\* A manager as constructed over an empty packs/, left alone.
NoManager ==
    /\ disk = [d \in DirNames |-> NoDir]
    /\ packs = Empty
    /\ manifests = Empty
    /\ configs = Empty
    /\ config_file = ConfigFile("missing", Empty)
    /\ events = <<>>
    /\ pc = "idle"
    /\ todo = {}
    /\ op = NoOp
    /\ temp = NoTemp
    /\ raising = FALSE

SessInit ==
    /\ NoManager
    /\ NoHub
    /\ NoSessions
    /\ now = 0
    /\ call = NoCall

\* The clock advances.
Tick ==
    /\ now < MaxTime
    /\ now' = now + 1
    /\ UNCHANGED <<manager_vars, session_vars, hub_vars, call>>

CreateSession ==
    /\ \E user_id \in Users, session_type \in SessionTypes :
          LET r == create_session(user_sessions, user_id, session_type,
                                  SessionData(session_type), now)
          IN /\ user_sessions' = r.sessions
             /\ sess_op' = SessOp("create", user_id, r.ret, user_sessions, now)
    /\ UNCHANGED <<manager_vars, hub_vars, call, now, terminated>>

GetSession ==
    /\ \E user_id \in Users :
          LET r == get_session(user_sessions, user_id, now)
          IN /\ user_sessions' = r.sessions
             /\ sess_op' = SessOp("get", user_id, r.ret, user_sessions, now)
    /\ UNCHANGED <<manager_vars, hub_vars, call, now, terminated>>

ClearSession ==
    /\ \E user_id \in Users :
          LET r == clear_session(user_sessions, user_id)
          IN /\ user_sessions' = r.sessions
             /\ sess_op' = SessOp("clear", user_id, r.ret, user_sessions, now)
    /\ UNCHANGED <<manager_vars, hub_vars, call, now, terminated>>

\* One pass of cleanup_sessions' loop, between two sleeps.
Sweep ==
    /\ user_sessions' = cleanup_pass(user_sessions, now)
    /\ sess_op' = SessOp("sweep", None, NoSession, user_sessions, now)
    /\ UNCHANGED <<manager_vars, hub_vars, call, now, terminated>>

\* terminate(): the registered shortcut commands are unregistered; the task
\* that initialize() started for cleanup_sessions is left as it is.
Terminate ==
    /\ ~terminated
    /\ terminated' = TRUE
    /\ sess_op' = SessOp("terminate", None, NoSession, user_sessions, now)
    /\ UNCHANGED <<manager_vars, hub_vars, call, now, user_sessions>>

SessNext ==
    \/ Tick
    \/ CreateSession
    \/ GetSession
    \/ ClearSession
    \/ Sweep
    \/ Terminate

SessSpec == SessInit /\ [][SessNext]_vars

\* The sweep keeps running: initialize() starts it as a task that loops
\* forever, sleeping between passes.
SessFairSpec == SessSpec /\ WF_vars(Sweep)

\* --------------------------------------- the plugin's command handlers

\* The session types of the generation flow, and the words the handlers
\* compare a reply with (one of each list).
GenerateTypes == {"generate_pack", "generate_sticker", "generate_text"}
YesWords == {"yes"}
NoWords == {"no", "exit"}
ExitWords == {"exit"}

\* What a handler leaves in user_sessions, self.packs and packs/, and what
\* it answered.
Flow(sessions, pks, dsk, out) ==
    [sessions |-> sessions, packs |-> pks, disk |-> dsk, out |-> out]
Answer(s, sessions, out) == Flow(sessions, s.packs, s.disk, out)

\* get_sticker_list: the stems of the image files of packs/<name>, none
\* when the directory does not exist.
get_sticker_list(dsk, pack_name) ==
    IF pack_name \in DOMAIN dsk THEN dsk[pack_name] ELSE {}

\* The plugin's delete_pack: every exception is caught and answered with
\* False, after whatever was done before it.
plugin_delete_pack(s, pack_name, fault) ==
    IF pack_name \notin DOMAIN s.packs THEN Flow(s.sessions, s.packs, s.disk, FALSE)
    ELSE IF fault = "unregister" THEN Flow(s.sessions, s.packs, s.disk, FALSE)
    ELSE Flow(s.sessions, Pop(s.packs, pack_name), Pop(s.disk, pack_name),
              fault # "save")

\* A slip of handle_generate_session: a refused reply renews the session.
handle_generate_session_renewing(s, user_id, user_input, rendered, at) ==
    LET session == s.sessions[user_id]
        params == session.data.params
        step(session_type, filled) ==
            Put(s.sessions, user_id,
                UserSession(user_id, session_type, GenerateData(filled),
                            at + SessionTimeout))
        renewed == Put(s.sessions, user_id, [session EXCEPT !.timeout = at + SessionTimeout])
        cleared(sessions) == clear_session(sessions, user_id).sessions
    IN IF user_input \in ExitWords THEN Answer(s, cleared(s.sessions), "exited")
       ELSE IF session.session_type = "generate_pack"
       THEN IF user_input \notin DOMAIN s.packs
            THEN Answer(s, renewed, "no_such_pack")
            ELSE IF get_sticker_list(s.disk, user_input) = {}
            THEN Answer(s, cleared(step("generate_sticker",
                                        [params EXCEPT !.pack = user_input])),
                        "empty_pack")
            ELSE Answer(s, step("generate_sticker", [params EXCEPT !.pack = user_input]),
                        "ask_sticker")
       ELSE IF session.session_type = "generate_sticker"
       THEN IF user_input \notin get_sticker_list(s.disk, params.pack)
            THEN Answer(s, renewed, "no_such_sticker")
            ELSE Answer(s, step("generate_text", [params EXCEPT !.sticker = user_input]),
                        "ask_text")
       ELSE Answer(s, cleared(s.sessions),
                   IF rendered THEN "rendered" ELSE "render_failed")

\* handle_generate_session on the active generation session of the user: a
\* reply to the step the session is at. The session object is changed in
\* place; render_sticker comes after clear_session and answers an image or
\* an error text.
handle_generate_session(s, user_id, user_input, rendered, at) ==
    LET session == s.sessions[user_id]
        params == session.data.params
        step(session_type, filled) ==
            Put(s.sessions, user_id,
                UserSession(user_id, session_type, GenerateData(filled),
                            at + SessionTimeout))
        cleared(sessions) == clear_session(sessions, user_id).sessions
    IN IF user_input \in ExitWords THEN Answer(s, cleared(s.sessions), "exited")
       ELSE IF session.session_type = "generate_pack"
       THEN IF user_input \notin DOMAIN s.packs
            THEN Answer(s, s.sessions, "no_such_pack")
            ELSE IF get_sticker_list(s.disk, user_input) = {}
            THEN Answer(s, cleared(step("generate_sticker",
                                        [params EXCEPT !.pack = user_input])),
                        "empty_pack")
            ELSE Answer(s, step("generate_sticker", [params EXCEPT !.pack = user_input]),
                        "ask_sticker")
       ELSE IF session.session_type = "generate_sticker"
       THEN IF user_input \notin get_sticker_list(s.disk, params.pack)
            THEN Answer(s, s.sessions, "no_such_sticker")
            ELSE Answer(s, step("generate_text", [params EXCEPT !.sticker = user_input]),
                        "ask_text")
       ELSE Answer(s, cleared(s.sessions),
                   IF rendered THEN "rendered" ELSE "render_failed")

\* handle_generate_command with the parsed parameters: the session of the
\* first missing one is created, and cleared again when there is nothing to
\* choose from.
handle_generate_command(s, user_id, params, rendered, at) ==
    LET created(session_type) ==
            create_session(s.sessions, user_id, session_type, GenerateData(params),
                           at).sessions
        cleared(sessions) == clear_session(sessions, user_id).sessions
    IN IF params.pack = None
       THEN IF \A n \in DOMAIN s.packs : ~s.packs[n].enabled
            THEN Answer(s, cleared(created("generate_pack")), "no_packs")
            ELSE Answer(s, created("generate_pack"), "ask_pack")
       ELSE IF params.sticker = None
       THEN IF params.pack \notin DOMAIN s.packs
            THEN Answer(s, cleared(created("generate_sticker")), "no_such_pack")
            ELSE IF get_sticker_list(s.disk, params.pack) = {}
            THEN Answer(s, cleared(created("generate_sticker")), "empty_pack")
            ELSE Answer(s, created("generate_sticker"), "ask_sticker")
       ELSE IF params.text = None
       THEN Answer(s, created("generate_text"), "ask_text")
       ELSE Answer(s, s.sessions, IF rendered THEN "rendered" ELSE "render_failed")

\* handle_delete_command: the confirmation session of a superuser for an
\* existing pack.
handle_delete_command(s, user_id, pack_name, superuser, at) ==
    IF ~superuser THEN Answer(s, s.sessions, "not_superuser")
    ELSE IF pack_name \notin DOMAIN s.packs THEN Answer(s, s.sessions, "no_such_pack")
    ELSE Answer(s, create_session(s.sessions, user_id, "delete_confirm",
                                  DeleteData(pack_name), at).sessions,
                "ask_confirm")

\* The message a /meme command is, as handle_generate_session reads it when
\* meme_command passes the event on.
CommandText == "/meme"

\* meme_command: get_session first (an expired session is removed); with a
\* session, yes confirms a deletion, no cancels, and anything else answers
\* a generation step; otherwise the sub-command is dispatched. The handlers
\* that answer with `yield` are async generators: the one of generate is
\* iterated, those awaited (delete among them) raise TypeError at the await.
meme_command(s, user_id, sub_command, params, fault, rendered, at) ==
    LET got == get_session(s.sessions, user_id, at)
        session == got.ret
        s1 == [s EXCEPT !.sessions = got.sessions]
        cleared == clear_session(s1.sessions, user_id).sessions
        deleted == plugin_delete_pack(s1, session.data.pack_name, fault)
        dispatched ==
            IF sub_command = "generate"
            THEN handle_generate_command(s1, user_id, params, rendered, at)
            ELSE IF sub_command = "delete" THEN Answer(s1, s1.sessions, "raised")
            ELSE Answer(s1, s1.sessions, "unknown_command")
    IN IF session = NoSession THEN dispatched
       ELSE IF sub_command \in YesWords
       THEN IF session.session_type = "delete_confirm"
            THEN Flow(cleared, deleted.packs, deleted.disk,
                      IF deleted.out THEN "deleted" ELSE "delete_failed")
            ELSE dispatched
       ELSE IF sub_command \in NoWords THEN Answer(s1, cleared, "cancelled")
       ELSE IF session.session_type \in GenerateTypes
       THEN handle_generate_session(s1, user_id, CommandText, rendered, at)
       ELSE dispatched

\* handle_session_message: a message that is no command answers the step
\* of the user's generation session, and is ignored without one.
handle_session_message(s, user_id, user_input, rendered, at) ==
    LET got == get_session(s.sessions, user_id, at)
        s1 == [s EXCEPT !.sessions = got.sessions]
    IN IF got.ret # NoSession /\ got.ret.session_type \in GenerateTypes
       THEN handle_generate_session(s1, user_id, user_input, rendered, at)
       ELSE Answer(s1, s1.sessions, "ignored")

\* The plugin's packs (self.packs) with the sticker names of their
\* directories: pack a with one sticker, pack b with none.
PluginPack(name) == [name |-> name, enabled |-> TRUE]
StickerNames == {"s"}
Replies == {"a", "b", "s", "exit"}
SubCommands == {"yes", "no", "generate", "delete"}
GenerateArgs ==
    {StickerParams(None, None, None), StickerParams("a", None, None),
     StickerParams("a", "s", None), StickerParams("a", "s", "hi")}
PluginDeleteFaults == {"none", "unregister", "save"}

FlowState == Flow(user_sessions, packs, disk, "none")

\* A handler that ran: by whom, on what input, and what it answered.
Handled(fn, user_id, input, out) ==
    [fn |-> fn, user_id |-> user_id, input |-> input, out |-> out]

FlowInit ==
    /\ NoHub
    /\ NoSessions
    /\ now = 0
    /\ call = NoCall
    /\ packs = [n \in Names |-> PluginPack(n)]
    /\ disk = [n \in Names |-> IF n = "a" THEN StickerNames ELSE {}]
    /\ manifests = Empty
    /\ configs = Empty
    /\ config_file = ConfigFile("missing", Empty)
    /\ events = <<>>
    /\ pc = "idle"
    /\ todo = {}
    /\ op = NoOp
    /\ temp = NoTemp
    /\ raising = FALSE

MemeCommand ==
    /\ \E user_id \in Users, sub_command \in SubCommands, rendered \in BOOLEAN :
          \E params \in IF sub_command = "generate" THEN GenerateArgs
                        ELSE {StickerParams(None, None, None)} :
              \E fault \in IF sub_command \in YesWords THEN PluginDeleteFaults
                           ELSE {"none"} :
                  LET r == meme_command(FlowState, user_id, sub_command, params,
                                        fault, rendered, now)
                  IN /\ user_sessions' = r.sessions
                     /\ packs' = r.packs
                     /\ disk' = r.disk
                     /\ call' = Handled("meme_command", user_id, sub_command, r.out)
    /\ UNCHANGED <<manifests, configs, config_file, events, pc, todo, op, temp,
                   raising, sess_op, terminated, hub_vars, now>>

HandleSessionMessage ==
    /\ \E user_id \in Users, user_input \in Replies, rendered \in BOOLEAN :
          LET r == handle_session_message(FlowState, user_id, user_input,
                                          rendered, now)
          IN /\ user_sessions' = r.sessions
             /\ call' = Handled("handle_session_message", user_id, user_input, r.out)
    /\ UNCHANGED <<manager_vars, sess_op, terminated, hub_vars, now>>

HandleDeleteCommand ==
    /\ \E user_id \in Users, pack_name \in Names, superuser \in BOOLEAN :
          LET r == handle_delete_command(FlowState, user_id, pack_name,
                                         superuser, now)
          IN /\ user_sessions' = r.sessions
             /\ call' = Handled("handle_delete_command", user_id, pack_name, r.out)
    /\ UNCHANGED <<manager_vars, sess_op, terminated, hub_vars, now>>

\* The clock advances, as far as a renewed session needs to expire.
FlowTick ==
    /\ now < MaxFlowTime
    /\ now' = now + 1
    /\ UNCHANGED <<manager_vars, session_vars, hub_vars, call>>

FlowNext ==
    \/ FlowTick
    \/ MemeCommand
    \/ HandleSessionMessage
    \/ HandleDeleteCommand

FlowSpec == FlowInit /\ [][FlowNext]_vars

\* -------------------------------- two install_pack calls on one manager

\* Two calls of install_pack run as tasks of one event loop, for the packs
\* a and b. A call is suspended only inside the download: at the request
\* and between the chunks of the response. Everything after the download
\* (extraction, move, save, _load_pack, the finally) runs without a
\* suspension.
Tasks == {1, 2}
TaskName(t) == IF t = 1 THEN "a" ELSE "b"
TaskInfo(t) == HubPackInfo(TaskName(t), V1, None)
TaskArchives == {ArchiveA1, ArchiveFlat, ArchiveBadZip}

\* What a call has come to: the archive the hub serves it, its file
\* <base>/.temp/<name>.zip ("none", "partial", "full", or "gone": removed
\* while the call was suspended), the chunks written and the result.
Task(archive, zip, chunks, result) ==
    [archive |-> archive, zip |-> zip, chunks |-> chunks, result |-> result]

\* The manager's state with the events emitted so far.
Manager == [State EXCEPT !.events = events]

\* shutil.rmtree(<base>/.temp) in the finally of task t: the directory goes
\* with every file in it, the other call's archive included.
rmtree_temp(tasks, t, result) ==
    [u \in Tasks |->
        IF u = t THEN [tasks[u] EXCEPT !.zip = "none", !.result = result]
        ELSE IF temp.work /\ tasks[u].zip \in {"partial", "full"}
        THEN [tasks[u] EXCEPT !.zip = "gone"]
        ELSE tasks[u]]

\* install_pack after the download returned the path: PackUpdater.install_pack
\* (which fails at once when the file is not there), the unlink, _load_pack and
\* INSTALLED, or ERROR and ManagerError; then the finally.
install_downloaded(s, final_name, archive, zip) ==
    LET inst == updater_install_pack(s.disk, archive, final_name,
                                     IF zip = "gone" THEN "extract" ELSE "none")
        s2 == [s EXCEPT !.disk = inst.disk, !.temp.extract = inst.temp_extract]
        s3 == load_pack(s2, final_name, FALSE)
    IN IF inst.raised
       THEN Outcome(cleanup_temp(emit_event(s2, final_name, "error", TRUE)),
                    "raised", "install")
       ELSE Outcome(cleanup_temp(emit_event(s3, final_name, "installed", FALSE)),
                    "ok", "done")

ConcInit ==
    /\ NoSessions
    /\ NoHub
    /\ now = 0
    /\ call = NoCall
    /\ disk = [d \in DirNames |-> NoDir]
    /\ packs = Empty
    /\ manifests = Empty
    /\ configs = Empty
    /\ config_file = ConfigFile("missing", Empty)
    /\ events = <<>>
    /\ op = NoOp
    /\ temp = NoTemp
    /\ raising = FALSE
    /\ pc = [t \in Tasks |-> "idle"]
    /\ todo \in [Tasks -> {Task(archive, "none", 0, "none") : archive \in TaskArchives}]

\* The call starts: INSTALLING, <base>/.temp is made, the request is sent.
StartInstall(t) ==
    /\ pc[t] = "idle"
    /\ pc' = [pc EXCEPT ![t] = "connecting"]
    /\ Becomes(emit_event([Manager EXCEPT !.temp.work = TRUE], TaskName(t),
                          "installing", FALSE))
    /\ UNCHANGED <<todo, op, session_vars, hub_vars, call, now>>

\* The response arrives and the file is opened for writing, which raises
\* when <base>/.temp is not there any more.
OpenArchive(t) ==
    /\ pc[t] = "connecting"
    /\ IF temp.work
       THEN /\ pc' = [pc EXCEPT ![t] = "streaming"]
            /\ todo' = [todo EXCEPT ![t].zip = "partial"]
            /\ UNCHANGED <<disk, packs, manifests, configs, config_file, events,
                           temp, raising>>
       ELSE /\ pc' = [pc EXCEPT ![t] = "done"]
            /\ todo' = rmtree_temp(todo, t, "raised")
            /\ Becomes(cleanup_temp(emit_event(Manager, TaskName(t), "error", TRUE)))
    /\ UNCHANGED <<op, session_vars, hub_vars, call, now>>

\* A chunk is written (to the open file, also when it was unlinked).
WriteChunk(t) ==
    /\ pc[t] = "streaming"
    /\ todo[t].chunks < MaxChunks
    /\ todo' = [todo EXCEPT ![t].chunks = @ + 1,
                            ![t].zip = IF @ = "gone" THEN "gone"
                                       ELSE IF todo[t].chunks + 1 = MaxChunks
                                       THEN "full" ELSE "partial"]
    /\ UNCHANGED <<disk, packs, manifests, configs, config_file, events, temp,
                   raising, pc, op, session_vars, hub_vars, call, now>>

\* The response ends: the rest of install_pack runs to its end.
FinishInstall(t) ==
    /\ pc[t] = "streaming"
    /\ todo[t].chunks = MaxChunks
    /\ LET r == install_downloaded(Manager, TaskName(t), todo[t].archive, todo[t].zip)
       IN /\ Becomes(r.s)
          /\ todo' = rmtree_temp(todo, t, r.result)
    /\ pc' = [pc EXCEPT ![t] = "done"]
    /\ UNCHANGED <<op, session_vars, hub_vars, call, now>>

ConcNext ==
    \E t \in Tasks :
        \/ StartInstall(t)
        \/ OpenArchive(t)
        \/ WriteChunk(t)
        \/ FinishInstall(t)

ConcSpec == ConcInit /\ [][ConcNext]_vars

\* ------------------------------------------------------ the hub client

HubInit ==
    /\ NoManager
    /\ NoSessions
    /\ NoHub
    /\ now = 0
    /\ call = NoCall

FetchPacks ==
    /\ \E force_refresh \in BOOLEAN, response \in Responses :
          LET r == fetch_packs(pack_cache, cache_time, force_refresh, now, response)
          IN /\ pack_cache' = r.cache
             /\ cache_time' = r.cache_time
             /\ hub_op' = HubOp("fetch", force_refresh,
                                IF r.requests = 0 THEN Response("none", <<>>)
                                ELSE response,
                                r.ret, r.raised, r.requests, pack_cache,
                                cache_time, now)
    /\ UNCHANGED <<manager_vars, session_vars, call, now>>

\* clear_cache.
ClearCache ==
    /\ pack_cache' = NoCache
    /\ cache_time' = NoCacheTime
    /\ hub_op' = HubOp("clear", FALSE, Response("none", <<>>), <<>>, FALSE, 0,
                       pack_cache, cache_time, now)
    /\ UNCHANGED <<manager_vars, session_vars, call, now>>

HubNext ==
    \/ Tick
    \/ FetchPacks
    \/ ClearCache

HubSpec == HubInit /\ [][HubNext]_vars

\* ------------------------------------------- the version functions, called

\* Version strings: up to MaxParts integer components, and two that do not
\* parse.
Versions ==
    UNION {[1..n -> {"0", "1", "2", "9"}] : n \in 1..MaxParts}
        \cup {<<"abc">>, <<"1", "x">>}

HubAnswer(kind, version) ==
    CASE kind = "error" -> HubRaises
      [] kind = "absent" -> HubAbsent
      [] OTHER -> HubFound(HubPackInfo("a", version, None))

VersionInit ==
    /\ NoManager
    /\ NoSessions
    /\ NoHub
    /\ now = 0
    /\ \E v1 \in Versions, v2 \in Versions \cup {NoVersion},
          hub \in {"error", "absent", "found"} :
          call = Call("input", v1, v2, hub, 0, FALSE, FALSE)

CompareVersions ==
    /\ call.fn = "input"
    /\ call.v2 # NoVersion
    /\ call' = [call EXCEPT !.fn = "compare_versions",
                            !.cmp = compare_versions(call.v1, call.v2)]
    /\ UNCHANGED <<manager_vars, session_vars, hub_vars, now>>

CheckUpdate ==
    /\ call.fn = "input"
    /\ LET hub == HubAnswer(call.hub, call.v1)
       IN call' = [call EXCEPT
               !.fn = "check_update_available",
               !.raised = check_update_raises(hub),
               !.available = IF check_update_raises(hub) THEN FALSE
                             ELSE check_update_available(hub, call.v2)]
    /\ UNCHANGED <<manager_vars, session_vars, hub_vars, now>>

VersionNext ==
    \/ CompareVersions
    \/ CheckUpdate

VersionSpec == VersionInit /\ [][VersionNext]_vars

\* ---------------------------------------------- the Pack functions, called

\* The entries a stickers/ directory is drawn from: the stems with four
\* extensions (two of them supported, one in upper case) and a subdirectory
\* named b.png beside the file of that name (a listing holds one of them).
PoolEntries ==
    {File(stem, ext) : stem \in Stems, ext \in {"png", "JPG", "txt", "md"}}
        \cup {Entry(3, "png", FALSE)}

\* The sets of at most k entries with no name held twice.
RECURSIVE Listings(_)
Listings(k) ==
    IF k = 0 THEN {{}}
    ELSE LET fewer == Listings(k - 1)
             grown(S) ==
                 {S \cup {e} : e \in {x \in PoolEntries :
                     \A y \in S : ~(y.stem = x.stem /\ y.ext = x.ext)}}
         IN fewer \cup UNION {grown(S) : S \in fewer}

PackMetas ==
    {MissingMeta, CorruptMeta, Meta("", "A", V1, None), Meta("a", "", V1, None),
     Meta("a", "A", V1, None)}

\* The pack directories a Pack is constructed on, and the archives
\* extract_pack is given: each layout, with and without metadata.json and
\* stickers/.
PackDirInputs ==
    {Dir(meta, TRUE, files) : meta \in PackMetas, files \in Listings(MaxFiles)}
        \cup {Dir(meta, FALSE, {}) : meta \in PackMetas}
        \cup {NoDir}
ArchiveInputs ==
    {GoodZip(layout, meta, TRUE, {File(1, "png")}) :
        layout \in {"wrapped", "flat"},
        meta \in {MissingMeta, Meta("a", "A", V1, None)}}
    \cup {GoodZip(layout, meta, FALSE, {}) :
        layout \in {"wrapped", "flat"},
        meta \in {MissingMeta, Meta("a", "A", V1, None)}}

\* A call of discover_stickers() or validate() of Pack(dir), or of
\* extract_pack(archive), with what it returned.
PackCall(fn, dir, archive, stickers, valid, root) ==
    [fn |-> fn, dir |-> dir, archive |-> archive, stickers |-> stickers,
     valid |-> valid, root |-> root]

PackInit ==
    /\ NoManager
    /\ NoSessions
    /\ NoHub
    /\ now = 0
    /\ \/ \E dir \in PackDirInputs :
             call = PackCall("dir", dir, NoArchive, <<>>, FALSE, NoDir)
       \/ \E archive \in ArchiveInputs :
             call = PackCall("archive", NoDir, archive, <<>>, FALSE, NoDir)

DiscoverStickers ==
    /\ call.fn = "dir"
    /\ call' = [call EXCEPT !.fn = "discover_stickers",
                            !.stickers = discover_stickers(call.dir)]
    /\ UNCHANGED <<manager_vars, session_vars, hub_vars, now>>

Validate ==
    /\ call.fn = "dir"
    /\ call' = [call EXCEPT !.fn = "validate", !.valid = validate(call.dir)]
    /\ UNCHANGED <<manager_vars, session_vars, hub_vars, now>>

ExtractPack ==
    /\ call.fn = "archive"
    /\ call' = [call EXCEPT !.fn = "extract_pack",
                            !.root = extract_pack(call.archive)]
    /\ UNCHANGED <<manager_vars, session_vars, hub_vars, now>>

\* get_sticker_path(sticker_name): the outcomes the directory order allows.
\* iterdir() of a missing stickers/ raises; the first entry with the stem
\* and a supported suffix is returned, a file or not; else None.
get_sticker_path(dir, sticker_name) ==
    LET matching == {f \in dir.files :
                        /\ StemName(f.stem) = sticker_name
                        /\ Lower(f.ext) \in SUPPORTED_FORMATS}
    IN IF ~dir.sdir THEN {[raised |-> TRUE, ret |-> None]}
       ELSE IF matching = {} THEN {[raised |-> FALSE, ret |-> None]}
       ELSE {[raised |-> FALSE, ret |-> StickerInfo(f).path] : f \in matching}

\* get_sticker_bytes(sticker_name): read_bytes() of the path found, which
\* raises on a directory.
get_sticker_bytes(dir, sticker_name) ==
    LET matching == {f \in dir.files :
                        /\ StemName(f.stem) = sticker_name
                        /\ Lower(f.ext) \in SUPPORTED_FORMATS}
    IN IF ~dir.sdir THEN {[raised |-> TRUE, ret |-> None]}
       ELSE IF matching = {} THEN {[raised |-> FALSE, ret |-> None]}
       ELSE {[raised |-> ~f.regular,
              ret |-> IF f.regular THEN <<"bytes of", StickerInfo(f).path>> ELSE None] :
                f \in matching}

GetStickerPath ==
    /\ call.fn = "dir"
    /\ \E stem \in Stems : \E got \in get_sticker_path(call.dir, StemName(stem)) :
          call' = [fn |-> "get_sticker_path", dir |-> call.dir,
                   sticker_name |-> StemName(stem), got |-> got]
    /\ UNCHANGED <<manager_vars, session_vars, hub_vars, now>>

GetStickerBytes ==
    /\ call.fn = "dir"
    /\ \E stem \in Stems : \E got \in get_sticker_bytes(call.dir, StemName(stem)) :
          call' = [fn |-> "get_sticker_bytes", dir |-> call.dir,
                   sticker_name |-> StemName(stem), got |-> got]
    /\ UNCHANGED <<manager_vars, session_vars, hub_vars, now>>

PackNext ==
    \/ DiscoverStickers
    \/ Validate
    \/ ExtractPack
    \/ GetStickerPath
    \/ GetStickerBytes

PackSpec == PackInit /\ [][PackNext]_vars


\* ---------------------------------------------------------------- readers

\* get_pack / get_manifest / get_config: the entry, or none.
get_pack(pack_name) == IF pack_name \in DOMAIN packs THEN {packs[pack_name]} ELSE {}
get_manifest(pack_name) ==
    IF pack_name \in DOMAIN manifests THEN {manifests[pack_name]} ELSE {}
get_config(pack_name) == IF pack_name \in DOMAIN configs THEN {configs[pack_name]} ELSE {}

\* list_packs: the sorted keys of self.packs.
list_packs == SortedNames(DOMAIN packs)

\* ----------------------------------------------------------------- claims

Range(seq) == {seq[i] : i \in 1..Len(seq)}
EventsOf(pack_name, states) ==
    {i \in 1..Len(events) :
        events[i].pack_name = pack_name /\ events[i].state \in states}
Finished(kind) == pc = "done" /\ op.kind = kind

\* The directories that reload's scan loads, and those among them whose
\* metadata.json is missing or invalid.
PackDirs(dsk) == {d \in DirNames : dsk[d].exists /\ d # DotName}
CorruptDirs(dsk) ==
    {d \in PackDirs(dsk) :
        \/ dsk[d].meta.kind # "json"
        \/ dsk[d].meta.name = ""
        \/ dsk[d].meta.display_name = ""}

\* C1: when exactly one of the pack directories has a missing or invalid
\* metadata.json, reload() returns without raising, registers every other
\* directory's pack, emits exactly one ERROR event, which names the corrupt
\* directory and carries a message, and list_packs() is exactly the other
\* names.
C1_ReloadIsolatesCorruptPack ==
    (Finished("reload") /\ Cardinality(CorruptDirs(disk)) = 1) =>
        /\ op.result = "ok"
        /\ DOMAIN packs = PackDirs(disk) \ CorruptDirs(disk)
        /\ DOMAIN manifests = PackDirs(disk) \ CorruptDirs(disk)
        /\ Range(list_packs) = PackDirs(disk) \ CorruptDirs(disk)
        /\ Len(list_packs) = Cardinality(PackDirs(disk)) - 1
        /\ Cardinality({i \in 1..Len(events) : events[i].state = "error"}) = 1
        /\ \A i \in 1..Len(events) :
              events[i].state = "error" =>
                 events[i].pack_name \in CorruptDirs(disk) /\ events[i].error

\* A reload over two pack directories, one of them corrupt, has returned.
C1_Witness ==
    /\ Finished("reload")
    /\ Cardinality(PackDirs(disk)) = 2
    /\ Cardinality(CorruptDirs(disk)) = 1
    /\ Len(list_packs) = 1

\* C2: install_pack returns normally only if INSTALLED was emitted, no ERROR
\* event was emitted for the name and the pack is registered as loaded from
\* the installed directory; when it raises, an ERROR event was emitted.
C2_InstallNeverSilentlyFails ==
    Finished("install") =>
        /\ op.result = "ok" =>
              /\ EventsOf(op.name, {"installed"}) # {}
              /\ EventsOf(op.name, {"error"}) = {}
              /\ get_pack(op.name) = {Pack(op.name)}
              /\ get_manifest(op.name) # {}
              /\ \A m \in get_manifest(op.name) :
                    /\ m.name = disk[op.name].meta.name
                    /\ m.version = disk[op.name].meta.version
                    /\ m.stickers = discover_stickers(disk[op.name])
        /\ op.result = "raised" =>
              /\ EventsOf(op.name, {"error"}) # {}
              /\ EventsOf(op.name, {"installed"}) = {}

\* C3: every update_pack call emits UPDATING first and, by the time it
\* returns or raises, exactly one UPDATED or ERROR event for the same name;
\* stated here for the calls during which no file-system or network step
\* fails, the up-to-date path among them.
C3_UpdateEmitsOneTerminalEvent ==
    (Finished("update") /\ op.fault = "none") =>
        /\ Len(events) >= 1
        /\ events[1] = PackEvent(op.name, "updating", FALSE)
        /\ Cardinality(EventsOf(op.name, {"updated", "error"})) = 1


C5_DeleteRemovesEverything ==
    (Finished("delete") /\ op.result = "ok") =>
        /\ get_pack(op.name) = {}
        /\ get_manifest(op.name) = {}
        /\ get_config(op.name) = {}
        /\ ~disk[op.name].exists
        /\ config_file.kind = "json"
        /\ config_file.packs = configs
        /\ configs = Pop(op.before.configs, op.name)
        /\ events = <<PackEvent(op.name, "deleting", FALSE),
                      PackEvent(op.name, "deleted", FALSE)>>

\* A delete of a pack that was on disk, registered and configured returned.
C5_Witness ==
    /\ Finished("delete")
    /\ op.result = "ok"
    /\ op.before.disk[op.name].exists
    /\ op.name \in DOMAIN op.before.packs
    /\ op.name \in DOMAIN op.before.configs
    /\ DOMAIN configs # {}

\* What the registries hold once reload() has scanned all of packs/.
ReloadedPacks(dsk) == [d \in PackDirs(dsk) \ CorruptDirs(dsk) |-> Pack(d)]
ReloadedManifests(dsk) ==
    [d \in PackDirs(dsk) \ CorruptDirs(dsk) |->
        [name |-> dsk[d].meta.name, display_name |-> dsk[d].meta.display_name,
         version |-> dsk[d].meta.version, url |-> dsk[d].meta.url,
         stickers |-> discover_stickers(dsk[d])]]

\* C6: while reload() is in progress, get_pack, get_manifest and list_packs
\* answer from the complete registry of before the reload or from the
\* complete registry of after it.
C6_ReloadIsAtomicForReaders ==
    pc = "reload" =>
        \/ packs = op.before.packs /\ manifests = op.before.manifests
        \/ packs = ReloadedPacks(disk) /\ manifests = ReloadedManifests(disk)

LoadEnds == {"loaded", "error"}

\* C7: every LOADING event is followed at once by exactly one LOADED or ERROR
\* event for the same name; LOADED is emitted only for a name that is in
\* packs and in manifests; reload() emits LOADING exactly for the directories
\* that do not start with a dot, and a finished install or update has loaded
\* its pack.
C7_LoadingThenLoadedOrError ==
    /\ \A i \in 1..Len(events) :
          events[i].state = "loading" =>
             /\ i < Len(events)
             /\ events[i + 1].state \in LoadEnds
             /\ events[i + 1].pack_name = events[i].pack_name
             /\ (i + 2 <= Len(events) => events[i + 2].state \notin LoadEnds)
    /\ \A i \in 1..Len(events) :
          events[i].state = "loaded" =>
             /\ i > 1
             /\ events[i - 1] = PackEvent(events[i].pack_name, "loading", FALSE)
             /\ events[i].pack_name \in DOMAIN packs \cap DOMAIN manifests
    /\ Finished("reload") =>
          \A d \in DirNames :
             Cardinality(EventsOf(d, {"loading"})) = IF d \in PackDirs(disk) THEN 1 ELSE 0
    /\ (pc = "done" /\ op.kind \in {"install", "update"} /\ op.stage = "done") =>
          Cardinality(EventsOf(op.name, {"loading"})) = 1

\* A reload that loaded one directory and reported another has returned.
C7_Witness ==
    /\ Finished("reload")
    /\ \E i, j \in 1..Len(events) :
          /\ events[i].state = "loaded"
          /\ events[j].state = "error"
          /\ events[i].pack_name # events[j].pack_name

\* The spec's order of versions: dotted integers, a missing or non-numeric
\* component counting as zero.
Component(v, i) == IF i <= Len(v) /\ IsInt(v[i]) THEN IntOf(v[i]) ELSE 0
StrictlyGreater(v1, v2) ==
    \E i \in 1..(Len(v1) + Len(v2)) :
        /\ Component(v1, i) > Component(v2, i)
        /\ \A j \in 1..(i - 1) : Component(v1, j) = Component(v2, j)

NothingChanged ==
    /\ disk = op.before.disk
    /\ packs = op.before.packs
    /\ manifests = op.before.manifests
    /\ configs = op.before.configs
    /\ config_file = op.before.config_file

\* C8: when the hub's version of a pack is not strictly greater than the
\* installed version, update_pack returns successfully and changes neither
\* the storage tree nor a registry.
C8_UpdateUpToDateChangesNothing ==
    (/\ Finished("update")
     /\ op.fault = "none"
     /\ op.hub.kind = "found"
     /\ op.name \in DOMAIN op.before.manifests
     /\ ~StrictlyGreater(op.hub.info.version, op.before.manifests[op.name].version)) =>
        /\ op.result = "ok"
        /\ NothingChanged

\* The branch of update_pack taken when check_update_available answers no:
\* it returns successfully and changes nothing.
UpToDateBranchChangesNothing ==
    (Finished("update") /\ op.stage = "uptodate") => op.result = "ok" /\ NothingChanged

\* Whether update_pack finds no origin url for the name.
NoOrigin(pack_name) ==
    \/ pack_name \notin DOMAIN op.before.manifests
    \/ op.before.manifests[pack_name].url \in {None, ""}

\* C9: update_pack for a name that is not registered, or whose manifest has
\* no origin url, raises ManagerError, emits an ERROR event for the name and
\* changes neither the storage tree nor a registry.
C9_UpdateWithoutOriginFails ==
    (Finished("update") /\ NoOrigin(op.name)) =>
        /\ op.result = "raised"
        /\ EventsOf(op.name, {"error"}) # {}
        /\ NothingChanged

\* An update of a registered pack whose manifest has no url has ended.
C9_Witness ==
    /\ Finished("update")
    /\ op.name \in DOMAIN op.before.manifests
    /\ op.before.manifests[op.name].url = None
    /\ op.before.disk[op.name].exists

\* C10: after a successful install (also the one update_pack performs) the
\* directory holds exactly the files of the new archive's pack, with the
\* metadata.json rewritten from its manifest, and no file of the old
\* directory that the archive does not carry.
C10_InstallReplacesDirectory ==
    (pc = "done" /\ op.kind \in {"install", "update"}
        /\ op.result = "ok" /\ op.stage = "done") =>
        LET dir == disk[op.name]
            old == op.before.disk[op.name]
        IN /\ dir.exists
           /\ dir.sdir = op.archive.sdir
           /\ dir.files = op.archive.files
           /\ dir.meta = op.archive.meta
           /\ \A f \in old.files : f \notin op.archive.files => f \notin dir.files

\* An install over a directory that held a sticker the new archive lacks has
\* returned.
C10_Witness ==
    /\ Finished("install")
    /\ op.result = "ok"
    /\ op.before.disk[op.name].exists
    /\ \E f \in op.before.disk[op.name].files : f \notin op.archive.files

\* C11: after every successful install the name in the installed manifest is
\* non-empty and equals the name of the directory it was installed into,
\* which is also the key it is registered under; stated for the installs
\* during which no file-system or network step fails.
C11_InstalledNameIsDirectoryName ==
    (Finished("install") /\ op.result = "ok" /\ op.fault = "none") =>
        /\ disk[op.name].exists
        /\ disk[op.name].meta.name # ""
        /\ disk[op.name].meta.name = op.name
        /\ \A m \in get_manifest(op.name) : m.name = op.name

\* C12: when install_pack or update_pack of the manager has returned or
\* raised, neither <base>/.temp (with the downloaded archive) nor
\* packs/.temp_extract exists, whichever step failed.
C12_NoTemporaryArtifactRemains ==
    (pc = "done" /\ op.kind \in {"install", "update"}) =>
        /\ ~temp.work
        /\ temp.zip = "none"
        /\ ~temp.extract

\* An install has ended that failed in the move of the extracted pack, after
\* the directory that was at the name had been removed.
C12_Witness ==
    /\ Finished("install")
    /\ op.result = "raised"
    /\ op.stage = "install"
    /\ op.fault = "move"
    /\ op.before.disk[op.name].exists
    /\ ~disk[op.name].exists

\* The steps of install_pack and update_pack that come after download_pack
\* was called.
DownloadCalled == {"download", "rmtree_old", "install", "done"}

\* C13: download_pack raises and leaves no file when the entry has a
\* checksum and the file's differs; it returns with the file in place when
\* the checksum matches or none is set and the transfer went through; on
\* every failure, a transfer cut after a partial write among them, no file
\* remains.
C13_DownloadLeavesNoFileOnFailure ==
    (pc = "done" /\ op.kind \in {"install", "update"} /\ op.stage \in DownloadCalled) =>
        LET matches == op.dl.checksum = None \/ op.dl.checksum = op.dl.digest
        IN /\ ~matches => op.dl.raised
           /\ op.dl.raised => op.dl.file = "none"
           /\ ~op.dl.raised => op.dl.file = "full" /\ matches
           /\ (matches /\ op.fault # "download") => ~op.dl.raised

\* An install has ended whose download found a checksum other than the
\* entry's.
C13_Witness ==
    /\ Finished("install")
    /\ op.stage = "download"
    /\ op.dl.checksum \notin {None, op.dl.digest}
    /\ op.fault = "none"

\* C14: a PackConfig exists for a pack from its first successful install
\* until its deletion: after install_pack(name) succeeds, get_config(name)
\* returns a config (a defaulted one when there was none before), and after
\* delete_pack(name) returns, get_config(name) returns none.
C14_ConfigFromInstallToDelete ==
    /\ (Finished("install") /\ op.result = "ok" /\ op.fault = "none") =>
          /\ get_config(op.name) # {}
          /\ op.name \notin DOMAIN op.before.configs =>
                get_config(op.name) = {PackConfig(op.name)}
    /\ (Finished("delete") /\ op.result = "ok") => get_config(op.name) = {}

\* The pack directories whose metadata.json loads and names another pack
\* than the directory.
MisnamedDirs(dsk) ==
    {d \in PackDirs(dsk) \ CorruptDirs(dsk) : dsk[d].meta.name # d}

\* C15: when reload() has returned, a pack directory whose manifest name
\* differs from the directory name has got an ERROR event and is not
\* registered, so every registered key k has manifests[k].name = k.
C15_ReloadRejectsMisnamedPack ==
    Finished("reload") =>
        /\ \A d \in MisnamedDirs(disk) :
              /\ EventsOf(d, {"error"}) # {}
              /\ d \notin DOMAIN packs \cup DOMAIN manifests
        /\ \A k \in DOMAIN manifests : manifests[k].name = k

\* The state s with the first listener raising, or not.
WithListener(s, raises) == [s EXCEPT !.raises = raises]

\* Two ways an operation ended that differ at most in whether the listener
\* raised.
SameEnd(x, y) == x = [y EXCEPT !.s.raises = x.s.raises]

\* C16: if a registered listener raises on the events, the other listener is
\* still called with every event, and the operation (each step of reload,
\* install, update, delete) ends with the same registries, disk, events and
\* result as with a listener that does not raise.
C16_RaisingListenerChangesNothing ==
    /\ pc = "idle" =>
          /\ \A pack_info \in InstallInfos, pack_name \in {None, "b"},
                run \in Runs(InstallFaults) :
                SameEnd(install_pack(WithListener(State, TRUE), pack_info, pack_name,
                                     run[1], run[2]),
                        install_pack(WithListener(State, FALSE), pack_info, pack_name,
                                     run[1], run[2]))
          /\ \A pack_name \in Names, run \in Runs(UpdateFaults) :
             \A hub \in HubAnswers(pack_name) :
                SameEnd(update_pack(WithListener(State, TRUE), pack_name, hub,
                                    run[1], run[2]),
                        update_pack(WithListener(State, FALSE), pack_name, hub,
                                    run[1], run[2]))
          /\ \A pack_name \in Names, fault \in DeleteFaults :
                SameEnd(delete_pack(WithListener(State, TRUE), pack_name, fault),
                        delete_pack(WithListener(State, FALSE), pack_name, fault))
    /\ pc = "reload" =>
          \A d \in todo :
             load_pack(WithListener(State, TRUE), d, FALSE)
                = WithListener(load_pack(WithListener(State, FALSE), d, FALSE), TRUE)
    /\ raising =>
          /\ (Finished("install") /\ op.stage = "done") =>
                /\ Len(events) = 4
                /\ events[4] = PackEvent(op.name, "installed", FALSE)
          /\ (Finished("delete") /\ op.result = "ok") => Len(events) = 2

\* An install has returned during which the first listener raised on each of
\* the four events, the second listener having got all of them.
C16_Witness ==
    /\ raising
    /\ Finished("install")
    /\ op.result = "ok"
    /\ Len(events) = 4

\* C17: fetch_packs returns the cached catalog and issues no request when a
\* cache exists, its age is below cache_ttl and force_refresh is false;
\* otherwise it issues one request, and when that fails it raises HubError
\* and leaves the cached catalog and its timestamp as they were; when it
\* succeeds the catalog fetched is returned and cached with the time.
C17_FetchPacksKeepsCacheOnFailure ==
    hub_op.kind = "fetch" =>
        LET cached ==
                /\ ~hub_op.force_refresh
                /\ hub_op.cache.set
                /\ hub_op.time.set
                /\ hub_op.at - hub_op.time.at < CacheTtl
            kept == pack_cache = hub_op.cache /\ cache_time = hub_op.time
        IN /\ cached =>
                /\ hub_op.requests = 0
                /\ ~hub_op.raised
                /\ hub_op.ret = hub_op.cache.packs
                /\ kept
           /\ ~cached => hub_op.requests = 1
           /\ (~cached /\ hub_op.response.kind # "ok") => hub_op.raised /\ kept
           /\ (~cached /\ hub_op.response.kind = "ok") =>
                /\ ~hub_op.raised
                /\ hub_op.ret = hub_op.response.packs
                /\ pack_cache = Cache(TRUE, hub_op.response.packs)
                /\ cache_time = CacheTime(TRUE, hub_op.at)

\* A fetch over a cache that had reached cache_ttl has failed.
C17_Witness ==
    /\ hub_op.kind = "fetch"
    /\ hub_op.raised
    /\ ~hub_op.force_refresh
    /\ hub_op.cache.set
    /\ hub_op.cache.packs # <<>>
    /\ hub_op.at - hub_op.time.at = CacheTtl

\* Every session is stored under its own user id.
KeyedByUser == \A u \in DOMAIN user_sessions : user_sessions[u].user_id = u

\* C18: create_session succeeds and replaces whatever session the user had,
\* leaving the other users' sessions alone, so there is one session per user
\* id at most; the created session's expiry is the creation time plus the
\* configured timeout.
C18_CreateReplacesSession ==
    /\ DOMAIN user_sessions \subseteq Users
    /\ KeyedByUser
    /\ sess_op.kind = "create" =>
          /\ sess_op.ret.user_id = sess_op.user_id
          /\ sess_op.ret.timeout = sess_op.at + SessionTimeout
          /\ user_sessions = Put(sess_op.before, sess_op.user_id, sess_op.ret)

\* A session was created for a user who had one of another type and expiry.
C18_Witness ==
    /\ sess_op.kind = "create"
    /\ sess_op.user_id \in DOMAIN sess_op.before
    /\ sess_op.before[sess_op.user_id].session_type # sess_op.ret.session_type
    /\ sess_op.before[sess_op.user_id].timeout # sess_op.ret.timeout

\* C19: get_session returns the stored session if and only if now is before
\* its expiry, leaving the store alone; an expired session is removed and
\* none returned; for a user without a session none is returned and nothing
\* changes.
C19_GetSessionExpires ==
    sess_op.kind = "get" =>
        LET u == sess_op.user_id
            live == u \in DOMAIN sess_op.before /\ sess_op.at < sess_op.before[u].timeout
        IN /\ live => sess_op.ret = sess_op.before[u] /\ user_sessions = sess_op.before
           /\ ~live =>
                /\ sess_op.ret = NoSession
                /\ user_sessions = Pop(sess_op.before, u)

\* get_session found a session at the tick of its expiry.
C19_Witness ==
    /\ sess_op.kind = "get"
    /\ sess_op.user_id \in DOMAIN sess_op.before
    /\ sess_op.at = sess_op.before[sess_op.user_id].timeout
    /\ sess_op.user_id \notin DOMAIN user_sessions

\* Whether the user's session is in the store past its expiry.
Expired(u) == u \in DOMAIN user_sessions /\ now >= user_sessions[u].timeout

\* What a pass of the sweep did: it removed the sessions whose expiry had
\* passed and no other.
SweepRemovesExpiredOnly ==
    sess_op.kind = "sweep" =>
        /\ DOMAIN user_sessions =
              {u \in DOMAIN sess_op.before : sess_op.at < sess_op.before[u].timeout}
        /\ \A u \in DOMAIN user_sessions : user_sessions[u] = sess_op.before[u]

\* C20: each pass of the sweep removes every session whose expiry has passed
\* and no session that has not expired; and, the sweep running on, a session
\* left in the store past its expiry is eventually removed.
C20_SweepRemovesExpired ==
    /\ []SweepRemovesExpiredOnly
    /\ \A u \in Users : Expired(u) ~> ~Expired(u)

\* A pass of the sweep removed one session at the tick of its expiry and
\* kept another.
C20_Witness ==
    /\ sess_op.kind = "sweep"
    /\ \E u \in DOMAIN sess_op.before :
          /\ sess_op.at = sess_op.before[u].timeout
          /\ u \notin DOMAIN user_sessions
    /\ DOMAIN user_sessions # {}

\* C21: after terminate() has completed, the session-expiry sweep performs no
\* further pass.
C21_NoSweepAfterTerminate == terminated => sess_op.kind # "sweep"

SameComponents(v1, v2) ==
    \A i \in 1..(Len(v1) + Len(v2)) : Component(v1, i) = Component(v2, i)
DottedIntegers(v) == \A i \in 1..Len(v) : IsInt(v[i])

\* C23: two dotted-integer versions that differ only by trailing zero
\* components compare equal ("1.2.0" with "1.2", "1.0.0" with "1.0"), and
\* "2.0.0" compares above "1.9.9".
C23_TrailingZerosCompareEqual ==
    call.fn = "compare_versions" =>
        /\ DottedIntegers(call.v1) /\ DottedIntegers(call.v2)
              /\ SameComponents(call.v1, call.v2)
           => call.cmp = 0
        /\ call.v1 = <<"2", "0", "0">> /\ call.v2 = <<"1", "9", "9">>
           => call.cmp > 0

\* C24: a version that does not parse compares as zero: "abc" against "1.0"
\* gives 0.
C24_UnparseableComparesAsZero ==
    call.fn = "compare_versions" /\ call.v1 = <<"abc">> /\ call.v2 = <<"1", "0">>
        => call.cmp = 0

\* C25: extract_pack returns the pack root for both layouts: the wrapper
\* directory when all the pack files sit under one, and the extraction root
\* when metadata.json and stickers/ sit directly at the archive root.  The
\* pack root is the directory that holds the archive's pack files.
C25_ExtractPackFindsPackRoot ==
    call.fn = "extract_pack" =>
        LET archive == call.archive
            pack_root == Dir(archive.meta, archive.sdir, archive.files)
        IN /\ archive.layout = "wrapped" => call.root = pack_root
           /\ archive.layout = "flat" /\ archive.meta.kind # "missing" /\ archive.sdir
              => call.root = pack_root

\* The image extensions, in either case.
IsImage(ext) == ext \in {"png", "jpg", "jpeg", "gif", "webp", "PNG", "JPG"}
Images(dir) == {f \in dir.files : f.regular /\ IsImage(f.ext)}

\* C28: validate() answers true exactly when metadata.json exists, it loads
\* (valid JSON with a non-empty name and display_name), stickers/ exists and
\* holds at least one sticker.
C28_ValidateIffComplete ==
    call.fn = "validate" =>
        (call.valid <=>
            /\ call.dir.exists
            /\ call.dir.meta.kind = "json"
            /\ call.dir.meta.name # ""
            /\ call.dir.meta.display_name # ""
            /\ call.dir.sdir
            /\ Images(call.dir) # {})

\* A valid pack whose only sticker has an upper-case extension.
C28_Witness ==
    /\ call.fn = "validate"
    /\ call.valid
    /\ call.dir.files = {File(1, "JPG"), File(4, "txt")}

\* The code points of the characters of the stems, as ranks.
CharRank(c) ==
    CASE c = "-" -> 0 [] c = "." -> 1 [] c = "a" -> 2 [] c = "b" -> 3
      [] c = "c" -> 4 [] c = "d" -> 5 [] c = "e" -> 6 [] c = "m" -> 7
      [] OTHER -> 8

\* Strings in code point order: the first difference decides, and a proper
\* prefix comes first.
LexLess(s, t) ==
    \/ \E i \in 1..Len(s) :
          /\ i <= Len(t)
          /\ CharRank(s[i]) < CharRank(t[i])
          /\ \A j \in 1..(i - 1) : s[j] = t[j]
    \/ /\ Len(s) < Len(t)
       /\ \A j \in 1..Len(s) : s[j] = t[j]

\* discover_stickers returned exactly one entry for each regular file with an
\* image extension, named by the file's stem; nothing when stickers/ is
\* absent; and a, b for {b.png, a.JPG, c.txt, readme.md}.
OneEntryPerImage ==
    LET stickers == call.stickers
    IN /\ Len(stickers) = Cardinality(Images(call.dir))
       /\ {stickers[i].path : i \in 1..Len(stickers)} =
             {<<"stickers", StemName(f.stem), f.ext>> : f \in Images(call.dir)}
       /\ \A i \in 1..Len(stickers) : stickers[i].name = stickers[i].path[2]
       /\ ~call.dir.sdir => stickers = <<>>
       /\ call.dir.files = {File(3, "png"), File(2, "JPG"), File(4, "txt"), File(5, "md")}
          => [i \in 1..Len(stickers) |-> stickers[i].name] = <<StemName(2), StemName(3)>>

C30_StickerNamesUnique ==
    call.fn = "discover_stickers" =>
        \A i, j \in 1..Len(call.stickers) :
            i # j => call.stickers[i].name # call.stickers[j].name

\* A reload has returned, and the one before it.
Reloaded == pc = "done" /\ op.kind \in {"reload", "reload_again"}

\* C26: a reload() called right after another, the file system unchanged,
\* leaves the registries as the first one left them: the same pack names,
\* the same manifests, the same sticker lists in the same order.
C26_ReloadIsIdempotent ==
    Finished("reload_again") /\ disk = op.before.disk =>
        /\ packs = op.before.packs
        /\ manifests = op.before.manifests

\* A second reload that has loaded a pack with a sticker again.
C26_Witness ==
    /\ Finished("reload_again")
    /\ disk = op.before.disk
    /\ \E n \in DOMAIN manifests : Len(manifests[n].stickers) > 0
    /\ CorruptDirs(disk) # {}

\* C27: with config.json missing, not JSON, or holding an entry that is not
\* a PackConfig, reload() still loads every loadable pack directory and
\* leaves the config map empty.
C27_ReloadToleratesBadConfig ==
    /\ Reloaded
    /\ \/ config_file.kind # "json"
       \/ \E n \in DOMAIN config_file.packs : config_file.packs[n] = NotAConfig
    => /\ packs = ReloadedPacks(disk)
       /\ manifests = ReloadedManifests(disk)
       /\ configs = Empty

\* C35: at every point of every operation the packs registry and the
\* manifests registry hold the same names.
C35_RegistriesHoldSameNames == DOMAIN packs = DOMAIN manifests

\* A delete that raised after its pops, with a pack still registered.
C35_Witness ==
    /\ Finished("delete")
    /\ op.result = "raised"
    /\ op.name \in DOMAIN op.before.packs
    /\ op.name \notin DOMAIN packs
    /\ DOMAIN packs # {}

\* C36: an update_pack whose download failed (transport error or checksum
\* mismatch) leaves the directories, the registries and the config file as
\* they were.
C36_FailedDownloadLeavesOldPack ==
    Finished("update") /\ op.stage = "download" => NothingChanged

\* Such an update of a pack whose directory exists, the checksum differing.
C36_Witness ==
    /\ Finished("update")
    /\ op.stage = "download"
    /\ op.fault = "none"
    /\ disk[op.name].exists
    /\ op.name \in DOMAIN manifests

\* C37: an install whose archive does not extract, or whose manifest does
\* not load, leaves every directory of packs/ as it was, the one at the
\* install name included.
C37_RejectedArchiveLeavesDirectory ==
    /\ Finished("install")
    /\ op.stage = "install"
    /\ op.fault \in {"none", "extract"}
    => disk = op.before.disk

\* Such an install over an existing directory.
C37_Witness ==
    /\ Finished("install")
    /\ op.stage = "install"
    /\ op.fault = "none"
    /\ op.name = "b"
    /\ disk["b"].exists

\* C38: a delete_pack that raised has deleted nothing: the directory and the
\* entries of the name in packs, manifests and configs are as before.
C38_FailedDeleteDeletesNothing ==
    Finished("delete") /\ op.result = "raised" =>
        /\ disk[op.name] = op.before.disk[op.name]
        /\ (op.name \in DOMAIN packs) = (op.name \in DOMAIN op.before.packs)
        /\ (op.name \in DOMAIN manifests) = (op.name \in DOMAIN op.before.manifests)
        /\ (op.name \in DOMAIN configs) = (op.name \in DOMAIN op.before.configs)

\* C39: after a successful install_pack the registered manifest has an
\* origin url, so that update_pack does not refuse the pack for lack of one.
C39_InstalledPackHasOrigin ==
    Finished("install") /\ op.result = "ok" /\ op.name \in DOMAIN manifests =>
        ~no_update_url(State, op.name)

\* C31: get_sticker_path and get_sticker_bytes, asked for a name that no
\* sticker of the pack has, return None and do not raise, also when the pack
\* has no stickers directory.
C31_MissingStickerIsNone ==
    /\ call.fn \in {"get_sticker_path", "get_sticker_bytes"}
    /\ \A f \in Images(call.dir) : StemName(f.stem) # call.sticker_name
    => call.got = [raised |-> FALSE, ret |-> None]

\* A user's session that get_session would return now, of the generation
\* flow or confirming a deletion; a step that a handler took for the user.
ActiveSession(u, types) ==
    /\ u \in DOMAIN user_sessions
    /\ now < user_sessions[u].timeout
    /\ user_sessions[u].session_type \in types
HandlerStep(u, fns) == now' = now /\ call'.fn \in fns /\ call'.user_id = u
SessionKept(u) ==
    u \in DOMAIN user_sessions' /\ user_sessions'[u] = user_sessions[u]
StickersOn(dsk, pack_name) == IF pack_name \in DOMAIN dsk THEN dsk[pack_name] ELSE {}

\* One step of the generation flow of user u, seen from outside.
GenerationStep(u) ==
    LET before == user_sessions[u]
        after == user_sessions'[u]
    IN ActiveSession(u, GenerateTypes) =>
        /\ (u \in DOMAIN user_sessions' /\ after.session_type \in GenerateTypes) =>
              \/ after = before
              \/ /\ HandlerStep(u, {"handle_session_message"})
                 /\ after.timeout = now + SessionTimeout
                 /\ \/ /\ before.session_type = "generate_pack"
                       /\ after.session_type = "generate_sticker"
                       /\ call'.input \in DOMAIN packs
                       /\ after.data.params = [before.data.params EXCEPT !.pack = call'.input]
                    \/ /\ before.session_type = "generate_sticker"
                       /\ after.session_type = "generate_text"
                       /\ call'.input \in StickersOn(disk, before.data.params.pack)
                       /\ after.data.params =
                              [before.data.params EXCEPT !.sticker = call'.input]
        /\ (before.session_type = "generate_text"
                /\ HandlerStep(u, {"handle_session_message"}))
              => u \notin DOMAIN user_sessions'

\* C32: a live generation session, while the user has one, changes only by
\* moving one step forward,
\* generate_pack to generate_sticker on the name of an existing pack and
\* generate_sticker to generate_text on the name of a sticker of that pack,
\* with the expiry set to now + timeout; otherwise it stays as it is or
\* goes. A reply to the text step removes the session whether the
\* rendering succeeds or fails.
C32_GenerationFlowMovesForward == [][\A u \in Users : GenerationStep(u)]_vars

\* A text step answered, the rendering failed, the session gone.
C32_Witness ==
    /\ call.fn = "handle_session_message"
    /\ call.out = "render_failed"
    /\ call.user_id \notin DOMAIN user_sessions

\* One step, as to deletions.
DeletionStep ==
    /\ (packs' # packs \/ disk' # disk) =>
          \E u \in Users :
              /\ ActiveSession(u, {"delete_confirm"})
              /\ HandlerStep(u, {"meme_command"})
              /\ call'.input \in YesWords
              /\ DOMAIN packs' \cup {user_sessions[u].data.pack_name} = DOMAIN packs
              /\ DOMAIN disk \ DOMAIN disk' \subseteq {user_sessions[u].data.pack_name}
    /\ \A u \in Users :
          (ActiveSession(u, {"delete_confirm"})
              /\ HandlerStep(u, {"meme_command"})
              /\ call'.input \in YesWords)
          => u \notin DOMAIN user_sessions'

\* C33: packs and directories change only when a user with a live
\* delete_confirm session answers yes, and then only the pack the session
\* names goes; such an answer clears the session whether the deletion
\* succeeded or failed.
C33_DeleteOnlyOnConfirmation == [][DeletionStep]_vars

\* A confirmed deletion that failed, the session cleared.
C33_Witness ==
    /\ call.fn = "meme_command"
    /\ call.out = "delete_failed"
    /\ call.user_id \notin DOMAIN user_sessions

\* One step, as to what it leaves alone: a refused reply of u, and the
\* sessions of the users who did not send the message.
RefusedReply(u) ==
    /\ \/ HandlerStep(u, {"handle_session_message"}) /\ call'.input \notin ExitWords
       \/ HandlerStep(u, {"meme_command"}) /\ call'.input \notin NoWords
    /\ \/ /\ ActiveSession(u, {"generate_pack"})
          /\ call'.fn = "meme_command" \/ call'.input \notin DOMAIN packs
       \/ /\ ActiveSession(u, {"generate_sticker"})
          /\ \/ call'.fn = "meme_command"
             \/ call'.input \notin StickersOn(disk, user_sessions[u].data.params.pack)
FrameStep ==
    \A u \in Users :
        /\ RefusedReply(u) => SessionKept(u)
        /\ (now' = now /\ call'.fn # "none" /\ call'.user_id # u) =>
              IF u \in DOMAIN user_sessions THEN SessionKept(u)
              ELSE u \notin DOMAIN user_sessions'

\* C40: a reply that names no pack at the generate_pack step, or no sticker
\* of the chosen pack at the generate_sticker step, leaves the user's
\* session as it is (type, data and expiry), and a handler changes no
\* session but that of the user whose message it handles.
C40_RefusedReplyChangesNothing == [][FrameStep]_vars

\* A sticker name refused while the other user has a session too.
C40_Witness ==
    /\ call.fn = "handle_session_message"
    /\ call.out = "no_such_sticker"
    /\ DOMAIN user_sessions = Users
    /\ now > 0

\* What the call of task t ends with when no other call runs.
InstallAlone(t) ==
    install_pack([Manager EXCEPT !.events = <<>>], TaskInfo(t), TaskName(t),
                 todo[t].archive, "none").result

\* C34: of two install_pack calls for different names, neither loses its
\* download directory or its downloaded archive to the other while it is
\* suspended, and each ends as it would have ended alone.
C34_InterleavedInstallsDoNotInterfere ==
    \A t \in Tasks :
        /\ pc[t] = "connecting" => temp.work
        /\ pc[t] = "streaming" => todo[t].zip # "gone"
        /\ pc[t] = "done" => todo[t].result = InstallAlone(t)


====
